---- MODULE Spec2Model ----
(***************************************************************************)
(* FlowMint: validation-and-settlement layer over an external aggregator.  *)
(* State machine of the on-chain program: ProtocolConfig, token balances,  *)
(* SwapReceipts, PaymentRecords, UserStats, and the instruction handlers.  *)
(* Every instruction is one atomic step: it commits or leaves no effect.   *)
(***************************************************************************)
EXTENDS Integers, Sequences, FiniteSets, TLC

VARIABLES config, clock, token, receipts, payments, user_stats, call, pin, pout

vars == <<config, clock, token, receipts, payments, user_stats, call, pin, pout>>

state == <<config, token, receipts, payments, user_stats>>

(***************************************************************************)
(* Identities and option values                                            *)
(***************************************************************************)
Users == {"alice", "bob"}

DefaultPubkey == "11111111"

Treasuries == {"treasury1", "treasury2"}

None == <<>>

Some(v) == <<v>>

IsSome(o) == Len(o) = 1

Unwrap(o) == o[1]

(***************************************************************************)
(* Program constants                                                       *)
(***************************************************************************)
MAX_SLIPPAGE_BPS == 5000

MAX_PROTOCOL_FEE_BPS == 10000

U16_MODULUS == 65536

(***************************************************************************)
(* u64 counters (total_swaps, total_payments) keep their 64-bit width: a   *)
(* value is held as four 16-bit limbs, least significant first.            *)
(***************************************************************************)
u64(n) == <<n % U16_MODULUS, n \div U16_MODULUS, 0, 0>>

U64_MAX == <<U16_MODULUS - 1, U16_MODULUS - 1, U16_MODULUS - 1, U16_MODULUS - 1>>

\* u64::wrapping_add(1)
wrapping_add_1(x) ==
  LET s1 == x[1] + 1
      s2 == x[2] + (s1 \div U16_MODULUS)
      s3 == x[3] + (s2 \div U16_MODULUS)
      s4 == x[4] + (s3 \div U16_MODULUS)
  IN  <<s1 % U16_MODULUS, s2 % U16_MODULUS, s3 % U16_MODULUS,
        s4 % U16_MODULUS>>

\* u64::saturating_add(1)
saturating_add_1(x) ==
  LET s1 == x[1] + 1
      s2 == x[2] + (s1 \div U16_MODULUS)
      s3 == x[3] + (s2 \div U16_MODULUS)
      s4 == x[4] + (s3 \div U16_MODULUS)
  IN  IF s4 \div U16_MODULUS = 1 THEN U64_MAX
      ELSE <<s1 % U16_MODULUS, s2 % U16_MODULUS, s3 % U16_MODULUS,
             s4 % U16_MODULUS>>

(***************************************************************************)
(* ProtocolConfig (state.rs).  exists = FALSE before the PDA is created.   *)
(***************************************************************************)
ProtocolConfig(a, d, p, m, e, f, t, n, v) ==
  [exists |-> TRUE, authority |-> a, default_slippage_bps |-> d,
   protected_slippage_bps |-> p, max_price_impact_bps |-> m,
   protected_mode_enabled |-> e, protocol_fee_bps |-> f, treasury |-> t,
   total_swaps |-> n, total_volume_usd |-> v]

NoConfig ==
  [exists |-> FALSE, authority |-> DefaultPubkey, default_slippage_bps |-> 0,
   protected_slippage_bps |-> 0, max_price_impact_bps |-> 0,
   protected_mode_enabled |-> FALSE, protocol_fee_bps |-> 0,
   treasury |-> DefaultPubkey, total_swaps |-> u64(0),
   total_volume_usd |-> 0]

(***************************************************************************)
(* initialize (initialize.rs handler).  The `init` constraint on the       *)
(* config PDA fails when the account already exists.                       *)
(***************************************************************************)
\* initialize without the bound on max_price_impact_bps
initialize_unbounded_impact(cfg, caller, default_slippage_bps, protected_slippage_bps, max_price_impact_bps, treasury) ==
  IF cfg.exists
    THEN [err |-> "AccountAlreadyInUse", cfg |-> cfg]
  ELSE IF ~(default_slippage_bps <= MAX_SLIPPAGE_BPS)
    THEN [err |-> "InvalidConfiguration", cfg |-> cfg]
  ELSE IF ~(protected_slippage_bps <= default_slippage_bps)
    THEN [err |-> "InvalidConfiguration", cfg |-> cfg]
  ELSE [err |-> "Ok",
        cfg |-> ProtocolConfig(caller, default_slippage_bps,
                               protected_slippage_bps, max_price_impact_bps,
                               FALSE, 0, treasury, u64(0), 0)]

initialize(cfg, caller, default_slippage_bps, protected_slippage_bps, max_price_impact_bps, treasury) ==
  IF cfg.exists
    THEN [err |-> "AccountAlreadyInUse", cfg |-> cfg]
  ELSE IF ~(default_slippage_bps <= MAX_SLIPPAGE_BPS)
    THEN [err |-> "InvalidConfiguration", cfg |-> cfg]
  ELSE IF ~(protected_slippage_bps <= default_slippage_bps)
    THEN [err |-> "InvalidConfiguration", cfg |-> cfg]
  ELSE IF ~(max_price_impact_bps <= MAX_SLIPPAGE_BPS)
    THEN [err |-> "InvalidConfiguration", cfg |-> cfg]
  ELSE [err |-> "Ok",
        cfg |-> ProtocolConfig(caller, default_slippage_bps,
                               protected_slippage_bps, max_price_impact_bps,
                               FALSE, 0, treasury, u64(0), 0)]

(***************************************************************************)
(* update_config_handler (admin.rs): the supplied fields are processed in  *)
(* order on the account; the first failing requirement aborts the call.    *)
(***************************************************************************)
UpdDefault(r, o) ==
  IF r.err # "Ok" \/ ~IsSome(o) THEN r
  ELSE IF ~(Unwrap(o) <= MAX_SLIPPAGE_BPS)
    THEN [r EXCEPT !.err = "InvalidConfiguration"]
  ELSE [r EXCEPT !.cfg.default_slippage_bps = Unwrap(o)]

UpdProtected(r, o) ==
  IF r.err # "Ok" \/ ~IsSome(o) THEN r
  ELSE IF ~(Unwrap(o) <= MAX_SLIPPAGE_BPS)
    THEN [r EXCEPT !.err = "InvalidConfiguration"]
  ELSE IF ~(Unwrap(o) <= r.cfg.default_slippage_bps)
    THEN [r EXCEPT !.err = "InvalidConfiguration"]
  ELSE [r EXCEPT !.cfg.protected_slippage_bps = Unwrap(o)]

UpdImpact(r, o) ==
  IF r.err # "Ok" \/ ~IsSome(o) THEN r
  ELSE IF ~(Unwrap(o) <= MAX_SLIPPAGE_BPS)
    THEN [r EXCEPT !.err = "InvalidConfiguration"]
  ELSE [r EXCEPT !.cfg.max_price_impact_bps = Unwrap(o)]

\* the protocol fee stored without its bound
UpdFee_unbounded(r, o) ==
  IF r.err # "Ok" \/ ~IsSome(o) THEN r
  ELSE [r EXCEPT !.cfg.protocol_fee_bps = Unwrap(o)]

UpdFee(r, o) ==
  IF r.err # "Ok" \/ ~IsSome(o) THEN r
  ELSE IF ~(Unwrap(o) <= MAX_PROTOCOL_FEE_BPS)
    THEN [r EXCEPT !.err = "InvalidConfiguration"]
  ELSE [r EXCEPT !.cfg.protocol_fee_bps = Unwrap(o)]

UpdTreasury(r, o) ==
  IF r.err # "Ok" \/ ~IsSome(o) THEN r
  ELSE [r EXCEPT !.cfg.treasury = Unwrap(o)]

\* the accounts stage without the authority constraint
AuthorityCheck_any_signer(cfg, caller) ==
  IF ~cfg.exists THEN "AccountNotInitialized" ELSE "Ok"

\* The UpdateConfig accounts constraint: the signer is the stored authority.
AuthorityCheck(cfg, caller) ==
  IF ~cfg.exists THEN "AccountNotInitialized"
  ELSE IF caller # cfg.authority THEN "Unauthorized"
  ELSE "Ok"

\* update_config with the protected value processed before the default, so
\* that it is compared with the stored default
update_config_protected_first(cfg, caller, new_default_slippage_bps, new_protected_slippage_bps, new_max_price_impact_bps, new_protocol_fee_bps, new_treasury) ==
  IF AuthorityCheck(cfg, caller) # "Ok"
    THEN [err |-> AuthorityCheck(cfg, caller), cfg |-> cfg]
  ELSE
    LET r == UpdTreasury(
               UpdFee(
                 UpdImpact(
                   UpdDefault(
                     UpdProtected([err |-> "Ok", cfg |-> cfg],
                                  new_protected_slippage_bps),
                     new_default_slippage_bps),
                   new_max_price_impact_bps),
                 new_protocol_fee_bps),
               new_treasury)
    IN  IF r.err = "Ok" THEN r ELSE [err |-> r.err, cfg |-> cfg]

\* update_config whose failure keeps the fields written before it
update_config_keeps_partial(cfg, caller, new_default_slippage_bps, new_protected_slippage_bps, new_max_price_impact_bps, new_protocol_fee_bps, new_treasury) ==
  IF AuthorityCheck(cfg, caller) # "Ok"
    THEN [err |-> AuthorityCheck(cfg, caller), cfg |-> cfg]
  ELSE UpdTreasury(
         UpdFee(
           UpdImpact(
             UpdProtected(
               UpdDefault([err |-> "Ok", cfg |-> cfg],
                          new_default_slippage_bps),
               new_protected_slippage_bps),
             new_max_price_impact_bps),
           new_protocol_fee_bps),
         new_treasury)

update_config_handler(cfg, caller, new_default_slippage_bps, new_protected_slippage_bps, new_max_price_impact_bps, new_protocol_fee_bps, new_treasury) ==
  IF AuthorityCheck(cfg, caller) # "Ok"
    THEN [err |-> AuthorityCheck(cfg, caller), cfg |-> cfg]
  ELSE
    LET r == UpdTreasury(
               UpdFee(
                 UpdImpact(
                   UpdProtected(
                     UpdDefault([err |-> "Ok", cfg |-> cfg],
                                new_default_slippage_bps),
                     new_protected_slippage_bps),
                   new_max_price_impact_bps),
                 new_protocol_fee_bps),
               new_treasury)
    IN  IF r.err = "Ok" THEN r ELSE [err |-> r.err, cfg |-> cfg]

(***************************************************************************)
(* toggle_protected_mode_handler (admin.rs)                                *)
(***************************************************************************)
toggle_protected_mode_handler(cfg, caller, enabled) ==
  IF AuthorityCheck(cfg, caller) # "Ok"
    THEN [err |-> AuthorityCheck(cfg, caller), cfg |-> cfg]
  ELSE [err |-> "Ok", cfg |-> [cfg EXCEPT !.protected_mode_enabled = enabled]]

(***************************************************************************)
(* withdraw_fees (admin.rs).  A token account is named by <<owner, mint>>. *)
(* WithdrawFees checks the authority, then the fee vault (its address      *)
(* against the seeds, its mint, its owner), then the treasury account.     *)
(***************************************************************************)
\* The config PDA, token authority of the fee vault.  The vault is the
\* token account at the address derived from b"fee_vault" and its mint.
ConfigPda == "config"

FeeVaultAddress(mint) == <<ConfigPda, mint>>

WithdrawAccounts(cfg, caller, usdc_mint, fee_vault, treasury_account) ==
  IF AuthorityCheck(cfg, caller) # "Ok" THEN AuthorityCheck(cfg, caller)
  ELSE IF fee_vault # FeeVaultAddress(usdc_mint) THEN "ConstraintSeeds"
  ELSE IF fee_vault[2] # usdc_mint THEN "InvalidMint"
  ELSE IF fee_vault[1] # ConfigPda THEN "InvalidOwner"
  ELSE IF treasury_account[2] # usdc_mint THEN "InvalidMint"
  ELSE IF treasury_account[1] # cfg.treasury THEN "InvalidOwner"
  ELSE "Ok"

\* a withdrawal that leaves one token in the fee vault
withdraw_fees_keeps_one(cfg, tok, caller, usdc_mint, fee_vault, treasury_account) ==
  LET accounts == WithdrawAccounts(cfg, caller, usdc_mint, fee_vault,
                                   treasury_account)
  IN  IF accounts # "Ok" THEN [err |-> accounts, cfg |-> cfg, tok |-> tok]
      ELSE IF tok[fee_vault] = 0 THEN [err |-> "Ok", cfg |-> cfg, tok |-> tok]
      ELSE [err |-> "Ok", cfg |-> cfg,
            tok |-> [tok EXCEPT ![fee_vault] = 1,
                                ![treasury_account] = @ + tok[fee_vault] - 1]]

withdraw_fees_handler(cfg, tok, caller, usdc_mint, fee_vault, treasury_account) ==
  LET accounts == WithdrawAccounts(cfg, caller, usdc_mint, fee_vault,
                                   treasury_account)
      amount == tok[fee_vault]
  IN  IF accounts # "Ok" THEN [err |-> accounts, cfg |-> cfg, tok |-> tok]
      ELSE IF amount = 0 THEN [err |-> "Ok", cfg |-> cfg, tok |-> tok]
      ELSE [err |-> "Ok", cfg |-> cfg,
            tok |-> [[tok EXCEPT ![fee_vault] = @ - amount]
                       EXCEPT ![treasury_account] = @ + amount]]

(***************************************************************************)
(* JupiterRoute (jupiter.rs).  A route step is modelled by the one field   *)
(* the program reads, fee_amount.  Amounts in this development stay below  *)
(* 2^31 / 10000, a range in which the program's 64-bit and 128-bit         *)
(* operations are exact; the narrowing casts keep their real widths.       *)
(***************************************************************************)
Mints == {"SOL", "USDC"}

JupiterRoute(im, om, ia, oa, s, steps, qt, qe) ==
  [input_mint |-> im, output_mint |-> om, in_amount |-> ia, out_amount |-> oa,
   slippage_bps |-> s, route_steps |-> steps, quote_timestamp |-> qt,
   quote_expiration_seconds |-> qe]

RouteStep(fee) == [fee_amount |-> fee]

\* validate without the in_amount comparison
validate_skips_amount(route, expected_input_mint, expected_output_mint, expected_amount_in, minimum_amount_out, max_slippage_bps) ==
  IF ~(route.input_mint = expected_input_mint)
    THEN "JupiterError::InvalidInputMint"
  ELSE IF ~(route.output_mint = expected_output_mint)
    THEN "JupiterError::InvalidOutputMint"
  ELSE IF ~(route.out_amount >= minimum_amount_out)
    THEN "JupiterError::InsufficientOutput"
  ELSE IF ~(route.slippage_bps <= max_slippage_bps)
    THEN "JupiterError::SlippageExceeded"
  ELSE "Ok"

\* validate without the slippage comparison
validate_ignores_slippage(route, expected_input_mint, expected_output_mint, expected_amount_in, minimum_amount_out, max_slippage_bps) ==
  IF ~(route.input_mint = expected_input_mint)
    THEN "JupiterError::InvalidInputMint"
  ELSE IF ~(route.output_mint = expected_output_mint)
    THEN "JupiterError::InvalidOutputMint"
  ELSE IF ~(route.in_amount = expected_amount_in)
    THEN "JupiterError::AmountMismatch"
  ELSE IF ~(route.out_amount >= minimum_amount_out)
    THEN "JupiterError::InsufficientOutput"
  ELSE "Ok"

\* validate with the amounts compared before the mints
validate_amounts_first(route, expected_input_mint, expected_output_mint, expected_amount_in, minimum_amount_out, max_slippage_bps) ==
  IF ~(route.in_amount = expected_amount_in)
    THEN "JupiterError::AmountMismatch"
  ELSE IF ~(route.out_amount >= minimum_amount_out)
    THEN "JupiterError::InsufficientOutput"
  ELSE IF ~(route.input_mint = expected_input_mint)
    THEN "JupiterError::InvalidInputMint"
  ELSE IF ~(route.output_mint = expected_output_mint)
    THEN "JupiterError::InvalidOutputMint"
  ELSE IF ~(route.slippage_bps <= max_slippage_bps)
    THEN "JupiterError::SlippageExceeded"
  ELSE "Ok"

validate(route, expected_input_mint, expected_output_mint, expected_amount_in, minimum_amount_out, max_slippage_bps) ==
  IF ~(route.input_mint = expected_input_mint)
    THEN "JupiterError::InvalidInputMint"
  ELSE IF ~(route.output_mint = expected_output_mint)
    THEN "JupiterError::InvalidOutputMint"
  ELSE IF ~(route.in_amount = expected_amount_in)
    THEN "JupiterError::AmountMismatch"
  ELSE IF ~(route.out_amount >= minimum_amount_out)
    THEN "JupiterError::InsufficientOutput"
  ELSE IF ~(route.slippage_bps <= max_slippage_bps)
    THEN "JupiterError::SlippageExceeded"
  ELSE "Ok"

\* is_expired with the boundary second counted as expired
is_expired_inclusive(route, current_timestamp) ==
  current_timestamp >= route.quote_timestamp + route.quote_expiration_seconds

\* is_expired with one second of grace after the deadline
is_expired_grace(route, current_timestamp) ==
  current_timestamp
    > route.quote_timestamp + route.quote_expiration_seconds + 1

is_expired(route, current_timestamp) ==
  current_timestamp > route.quote_timestamp + route.quote_expiration_seconds

(***************************************************************************)
(* calculate_actual_slippage (jupiter.rs): (diff * 10000) / expected_out   *)
(* in i128, truncated toward zero, then narrowed with `as i32`, which      *)
(* keeps the low 32 bits.  The low 32 bits are computed in 16-bit limbs.   *)
(***************************************************************************)
I32FromLimbs(hi, lo) ==
  IF hi >= 32768 THEN (hi - 65536) * 65536 + lo ELSE hi * 65536 + lo

\* low 32 bits, as i32, of q * 10000 + t, for 0 <= q < 2^31 and 0 <= t < 10000
LowI32(q, t) ==
  LET a == (q % 65536) * 10000 + t
      hi == ((q \div 65536) * 10000 + (a \div 65536)) % 65536
  IN  I32FromLimbs(hi, a % 65536)

calculate_actual_slippage(expected_out, actual_out) ==
  IF expected_out = 0 THEN 0
  ELSE IF actual_out >= expected_out
    THEN LET diff == actual_out - expected_out
         IN  LowI32(diff \div expected_out,
                    ((diff % expected_out) * 10000) \div expected_out)
  ELSE -(((expected_out - actual_out) * 10000) \div expected_out)

\* verify_swap_output without the minimum-output check
verify_swap_output_no_floor(actual_out, minimum_out, max_slippage_bps, expected_out) ==
  IF calculate_actual_slippage(expected_out, actual_out) < -max_slippage_bps
    THEN "JupiterError::SlippageExceeded"
  ELSE "Ok"

verify_swap_output(actual_out, minimum_out, max_slippage_bps, expected_out) ==
  IF ~(actual_out >= minimum_out)
    THEN "JupiterError::InsufficientOutput"
  ELSE IF calculate_actual_slippage(expected_out, actual_out)
            < -max_slippage_bps
    THEN "JupiterError::SlippageExceeded"
  ELSE "Ok"

(***************************************************************************)
(* calculate_price_impact (swap.rs): the u64 quotient narrowed `as u16`.   *)
(***************************************************************************)
RECURSIVE SumFees(_)
SumFees(steps) ==
  IF steps = <<>> THEN 0 ELSE Head(steps).fee_amount + SumFees(Tail(steps))

calculate_price_impact(route) ==
  IF route.in_amount = 0 \/ route.out_amount = 0 THEN 0
  ELSE ((SumFees(route.route_steps) * 10000) \div route.in_amount)
         % U16_MODULUS

(***************************************************************************)
(* ProtocolConfig::validate_slippage (state.rs)                            *)
(***************************************************************************)
\* validate_slippage that always applies the default ceiling
validate_slippage_default_only(cfg, slippage_bps, protected_mode) ==
  slippage_bps <= cfg.default_slippage_bps

validate_slippage(cfg, slippage_bps, protected_mode) ==
  IF protected_mode \/ cfg.protected_mode_enabled
    THEN slippage_bps <= cfg.protected_slippage_bps
    ELSE slippage_bps <= cfg.default_slippage_bps

(***************************************************************************)
(* Token accounts, keyed by <<owner, mint>>.  The accounts constraints of  *)
(* ExecuteSwap and PayAnyToken (owner and mint of each token account) hold *)
(* by construction: a call is given the accounts its signer owns.          *)
(***************************************************************************)
Merchants == {"shop"}

TempOwner == [u \in Users |-> IF u = "alice" THEN "temp_usdc(alice)"
                                             ELSE "temp_usdc(bob)"]

TokenAccounts ==
  (Users \X Mints) \cup {<<TempOwner[u], "USDC">> : u \in Users}
    \cup (Merchants \X {"USDC"})
    \cup {FeeVaultAddress("USDC")} \cup (Treasuries \X Mints)

InitialBalance == 10

InitToken ==
  [a \in TokenAccounts |-> IF a[1] \in Users THEN InitialBalance ELSE 0]

\* token::transfer (SPL token program): fails on insufficient funds.
CanTransfer(tok, from, amount) == tok[from] >= amount

\* a transfer that credits the destination without debiting the source
Transfer_no_debit(tok, from, to, amount) ==
  IF from = to THEN tok ELSE [tok EXCEPT ![to] = @ + amount]

Transfer(tok, from, to, amount) ==
  IF from = to THEN tok
  ELSE [tok EXCEPT ![from] = @ - amount, ![to] = @ + amount]

(***************************************************************************)
(* UserStats (state.rs), created zeroed by init_if_needed.                 *)
(***************************************************************************)
NoUserStats ==
  [exists |-> FALSE, user |-> DefaultPubkey, total_swaps |-> u64(0),
   total_volume_usd |-> 0, total_payments |-> u64(0), total_dca_orders |-> 0,
   total_stop_loss_orders |-> 0, last_activity |-> 0]

(***************************************************************************)
(* The route payload in remaining_accounts[0]: absent, undecodable, or a   *)
(* JupiterRoute (deserialize_route).                                       *)
(***************************************************************************)
NoRoute == JupiterRoute(DefaultPubkey, DefaultPubkey, 0, 0, 0, <<>>, 0, 0)

NoPayload == [present |-> FALSE, decodes |-> FALSE, route |-> NoRoute]

GarbagePayload == [present |-> TRUE, decodes |-> FALSE, route |-> NoRoute]

RoutePayload(r) == [present |-> TRUE, decodes |-> TRUE, route |-> r]

(***************************************************************************)
(* The aggregator's effect (execute_jupiter_swap): the CPI fails, or it    *)
(* returns having debited the signer's input account by `spent` and moved  *)
(* the destination account's balance by out_delta.                         *)
(***************************************************************************)
NoEffect == [ok |-> FALSE, spent |-> 0, out_delta |-> 0]

Effect(spent, out_delta) == [ok |-> TRUE, spent |-> spent, out_delta |-> out_delta]

Failed(e, cpi) == [err |-> e, cpi |-> cpi]

\* An aborted transaction whose effects would persist
Abort_keeps_effects(e, cpi, pre, dirty) == Failed(e, cpi) @@ dirty

\* An error returned after the handler has had effects: the transaction is
\* aborted, the effects made so far (dirty) are discarded and the accounts
\* keep their pre-call contents (pre).
Abort(e, cpi, pre, dirty) == Failed(e, cpi) @@ pre

(***************************************************************************)
(* execute_swap_handler (swap.rs), steps 1-3: every check made before the  *)
(* aggregator is invoked.  Returns the first failing check's error.        *)
(***************************************************************************)
\* the prechecks with the price-impact ceiling applied under every policy
SwapPrecheck_impact_always(cfg, tok, now, a, pl) ==
  LET effective_protected_mode == a.protected_mode \/ cfg.protected_mode_enabled
      v == validate(pl.route, a.input_mint, a.output_mint, a.amount_in,
                    a.minimum_amount_out, a.slippage_bps)
  IN  IF ~validate_slippage(cfg, a.slippage_bps, effective_protected_mode)
        THEN "FlowMintError::SlippageExceeded"
      ELSE IF ~(tok[<<a.user, a.input_mint>>] >= a.amount_in)
        THEN "FlowMintError::InsufficientBalance"
      ELSE IF ~(a.amount_in > 0) THEN "FlowMintError::AmountTooSmall"
      ELSE IF ~(a.minimum_amount_out > 0) THEN "FlowMintError::AmountTooSmall"
      ELSE IF ~pl.present THEN "FlowMintError::InvalidInstructionData"
      ELSE IF ~pl.decodes THEN "JupiterError::DeserializationFailed"
      ELSE IF v # "Ok" THEN v
      ELSE IF is_expired(pl.route, now) THEN "FlowMintError::QuoteExpired"
      ELSE IF ~(calculate_price_impact(pl.route) <= cfg.max_price_impact_bps)
        THEN "FlowMintError::PriceImpactTooHigh"
      ELSE "Ok"

\* the prechecks with the balance compared before the slippage ceiling
SwapPrecheck_balance_first(cfg, tok, now, a, pl) ==
  LET effective_protected_mode == a.protected_mode \/ cfg.protected_mode_enabled
      v == validate(pl.route, a.input_mint, a.output_mint, a.amount_in,
                    a.minimum_amount_out, a.slippage_bps)
  IN  IF ~(tok[<<a.user, a.input_mint>>] >= a.amount_in)
        THEN "FlowMintError::InsufficientBalance"
      ELSE IF ~validate_slippage(cfg, a.slippage_bps, effective_protected_mode)
        THEN "FlowMintError::SlippageExceeded"
      ELSE IF ~(a.amount_in > 0) THEN "FlowMintError::AmountTooSmall"
      ELSE IF ~(a.minimum_amount_out > 0) THEN "FlowMintError::AmountTooSmall"
      ELSE IF ~pl.present THEN "FlowMintError::InvalidInstructionData"
      ELSE IF ~pl.decodes THEN "JupiterError::DeserializationFailed"
      ELSE IF v # "Ok" THEN v
      ELSE IF is_expired(pl.route, now) THEN "FlowMintError::QuoteExpired"
      ELSE IF effective_protected_mode
              /\ ~(calculate_price_impact(pl.route) <= cfg.max_price_impact_bps)
        THEN "FlowMintError::PriceImpactTooHigh"
      ELSE "Ok"

SwapPrecheck(cfg, tok, now, a, pl) ==
  LET effective_protected_mode == a.protected_mode \/ cfg.protected_mode_enabled
      v == validate(pl.route, a.input_mint, a.output_mint, a.amount_in,
                    a.minimum_amount_out, a.slippage_bps)
  IN  IF ~validate_slippage(cfg, a.slippage_bps, effective_protected_mode)
        THEN "FlowMintError::SlippageExceeded"
      ELSE IF ~(tok[<<a.user, a.input_mint>>] >= a.amount_in)
        THEN "FlowMintError::InsufficientBalance"
      ELSE IF ~(a.amount_in > 0) THEN "FlowMintError::AmountTooSmall"
      ELSE IF ~(a.minimum_amount_out > 0) THEN "FlowMintError::AmountTooSmall"
      ELSE IF ~pl.present THEN "FlowMintError::InvalidInstructionData"
      ELSE IF ~pl.decodes THEN "JupiterError::DeserializationFailed"
      ELSE IF v # "Ok" THEN v
      ELSE IF is_expired(pl.route, now) THEN "FlowMintError::QuoteExpired"
      ELSE IF effective_protected_mode
              /\ ~(calculate_price_impact(pl.route) <= cfg.max_price_impact_bps)
        THEN "FlowMintError::PriceImpactTooHigh"
      ELSE "Ok"

\* The accounts stage of ExecuteSwap: config must exist, the receipt PDA
\* seeded by (user, unix_timestamp) is created with `init`.
\* the receipt account taken with init_if_needed instead of init
SwapAccounts_init_if_needed(cfg, rcpts, now, a) ==
  IF ~cfg.exists THEN "AccountNotInitialized" ELSE "Ok"

SwapAccounts(cfg, rcpts, now, a) ==
  IF ~cfg.exists THEN "AccountNotInitialized"
  ELSE IF <<a.user, now>> \in DOMAIN rcpts THEN "AccountAlreadyInUse"
  ELSE "Ok"

\* a receipt of the quoted output instead of the realized one
SwapReceipt_quoted(a, amount_out, effective_protected_mode, now) ==
  [user |-> a.user, input_mint |-> a.input_mint, output_mint |-> a.output_mint,
   amount_in |-> a.amount_in, amount_out |-> a.payload.route.out_amount,
   slippage_bps |-> a.slippage_bps, protected_mode |-> effective_protected_mode,
   timestamp |-> now]

SwapReceipt(a, amount_out, effective_protected_mode, now) ==
  [user |-> a.user, input_mint |-> a.input_mint, output_mint |-> a.output_mint,
   amount_in |-> a.amount_in, amount_out |-> amount_out,
   slippage_bps |-> a.slippage_bps, protected_mode |-> effective_protected_mode,
   timestamp |-> now]

(***************************************************************************)
(* Step 8 of both handlers: the caller's UserStats, taken with             *)
(* init_if_needed (zeroed when new), gets its user field on first use, its *)
(* counter incremented and its last_activity set.                          *)
(***************************************************************************)
\* a swap that leaves the user's swap counter as it was
UserStatsAfterSwap_no_count(st, user, now) ==
  LET st1 == IF st.user = DefaultPubkey
               THEN [st EXCEPT !.exists = TRUE, !.user = user] ELSE st
  IN  [st1 EXCEPT !.last_activity = now]

UserStatsAfterSwap(st, user, now) ==
  LET st1 == IF st.user = DefaultPubkey
               THEN [st EXCEPT !.exists = TRUE, !.user = user] ELSE st
  IN  [st1 EXCEPT !.total_swaps = saturating_add_1(@), !.last_activity = now]

\* a payment that counts as a swap as well
UserStatsAfterPayment_counts_swap(st, payer, now) ==
  LET st1 == IF st.user = DefaultPubkey
               THEN [st EXCEPT !.exists = TRUE, !.user = payer] ELSE st
  IN  [st1 EXCEPT !.total_payments = saturating_add_1(@),
                  !.total_swaps = saturating_add_1(@), !.last_activity = now]

\* a payment counter that wraps to zero past 2^64-1
UserStatsAfterPayment_wrapping(st, payer, now) ==
  LET st1 == IF st.user = DefaultPubkey
               THEN [st EXCEPT !.exists = TRUE, !.user = payer] ELSE st
  IN  [st1 EXCEPT !.total_payments = wrapping_add_1(@), !.last_activity = now]

UserStatsAfterPayment(st, payer, now) ==
  LET st1 == IF st.user = DefaultPubkey
               THEN [st EXCEPT !.exists = TRUE, !.user = payer] ELSE st
  IN  [st1 EXCEPT !.total_payments = saturating_add_1(@), !.last_activity = now]

(***************************************************************************)
(* execute_swap_handler (swap.rs), whole call.  Result: err, cpi (whether  *)
(* the aggregator was invoked), and the state the call commits.            *)
(***************************************************************************)
execute_swap_handler(cfg, tok, rcpts, stats, now, a, pl, agg) ==
  LET unchanged == [cfg |-> cfg, tok |-> tok, rcpts |-> rcpts, stats |-> stats]
      pre == SwapPrecheck(cfg, tok, now, a, pl)
      in_acct == <<a.user, a.input_mint>>
      out_acct == <<a.user, a.output_mint>>
      output_balance_before == tok[out_acct]
      tok1 == [[tok EXCEPT ![in_acct] = @ - agg.spent]
                 EXCEPT ![out_acct] = @ + agg.out_delta]
      swapped == [unchanged EXCEPT !.tok = tok1]
      output_balance_after == tok1[out_acct]
      actual_amount_out == output_balance_after - output_balance_before
      effective_protected_mode == a.protected_mode \/ cfg.protected_mode_enabled
      v == verify_swap_output(actual_amount_out, a.minimum_amount_out,
                              a.slippage_bps, pl.route.out_amount)
      st2 == UserStatsAfterSwap(stats[a.user], a.user, now)
  IN  IF SwapAccounts(cfg, rcpts, now, a) # "Ok"
        THEN Failed(SwapAccounts(cfg, rcpts, now, a), FALSE) @@ unchanged
      ELSE IF pre # "Ok" THEN Failed(pre, FALSE) @@ unchanged
      ELSE IF ~agg.ok
        THEN Failed("JupiterError::CpiInvocationFailed", TRUE) @@ unchanged
      ELSE IF output_balance_after < output_balance_before
        THEN Abort("FlowMintError::MathOverflow", TRUE, unchanged, swapped)
      ELSE IF v # "Ok" THEN Abort(v, TRUE, unchanged, swapped)
      ELSE [err |-> "Ok", cpi |-> TRUE,
            cfg |-> [cfg EXCEPT !.total_swaps = saturating_add_1(@)],
            tok |-> tok1,
            rcpts |-> (<<a.user, now>> :>
                         SwapReceipt(a, actual_amount_out,
                                     effective_protected_mode, now)) @@ rcpts,
            stats |-> [stats EXCEPT ![a.user] = st2]]

(***************************************************************************)
(* pay_any_token_handler (payment.rs)                                      *)
(***************************************************************************)
MAX_MEMO_LENGTH == 64

Min(x, y) == IF x <= y THEN x ELSE y

\* Step 7: the memo bytes, truncated to MAX_MEMO_LENGTH and zero padded.
MemoBytes(memo) ==
  IF IsSome(memo)
    THEN [i \in 1..MAX_MEMO_LENGTH |->
            IF i <= Min(Len(Unwrap(memo)), MAX_MEMO_LENGTH)
              THEN Unwrap(memo)[i] ELSE 0]
    ELSE [i \in 1..MAX_MEMO_LENGTH |-> 0]

\* the memo length stored without truncation
MemoLen_untruncated(memo) == IF IsSome(memo) THEN Len(Unwrap(memo)) ELSE 0

MemoLen(memo) ==
  IF IsSome(memo) THEN Min(Len(Unwrap(memo)), MAX_MEMO_LENGTH) ELSE 0

\* a record of the declared maximum instead of the actual input amount
PaymentRecord_declared_max(a, actual_amount_in, now) ==
  [payer |-> a.payer, merchant |-> a.merchant, input_mint |-> a.input_mint,
   amount_in |-> a.amount_in, usdc_amount |-> a.exact_usdc_out,
   memo |-> MemoBytes(a.memo), memo_len |-> MemoLen(a.memo), timestamp |-> now]

PaymentRecord(a, actual_amount_in, now) ==
  [payer |-> a.payer, merchant |-> a.merchant, input_mint |-> a.input_mint,
   amount_in |-> actual_amount_in, usdc_amount |-> a.exact_usdc_out,
   memo |-> MemoBytes(a.memo), memo_len |-> MemoLen(a.memo), timestamp |-> now]

\* The accounts stage of PayAnyToken: config must exist, the record PDA
\* seeded by (payer, merchant, unix_timestamp) is created with `init`.
\* the record account taken with init_if_needed instead of init
PayAccounts_init_if_needed(cfg, pays, now, a) ==
  IF ~cfg.exists THEN "AccountNotInitialized" ELSE "Ok"

PayAccounts(cfg, pays, now, a) ==
  IF ~cfg.exists THEN "AccountNotInitialized"
  ELSE IF <<a.payer, a.merchant, now>> \in DOMAIN pays
    THEN "AccountAlreadyInUse"
  ELSE "Ok"

\* Step 1, and for a conversion step 3: the checks before any transfer or
\* aggregator call.
PayPrecheck(cfg, tok, now, a, pl) ==
  LET v == validate(pl.route, a.input_mint, "USDC", a.amount_in,
                    a.exact_usdc_out, cfg.default_slippage_bps)
  IN  IF ~(a.amount_in > 0) THEN "FlowMintError::AmountTooSmall"
      ELSE IF ~(a.exact_usdc_out > 0) THEN "FlowMintError::AmountTooSmall"
      ELSE IF ~(tok[<<a.payer, a.input_mint>>] >= a.amount_in)
        THEN "FlowMintError::InsufficientBalance"
      ELSE IF a.input_mint = "USDC" THEN "Ok"
      ELSE IF ~pl.present THEN "FlowMintError::InvalidInstructionData"
      ELSE IF ~pl.decodes THEN "JupiterError::DeserializationFailed"
      ELSE IF v # "Ok" THEN v
      ELSE IF is_expired(pl.route, now) THEN "FlowMintError::QuoteExpired"
      ELSE "Ok"

\* amount_in.saturating_sub(balance)
CostBasis_saturating(amount_in, balance_after) ==
  IF amount_in >= balance_after THEN amount_in - balance_after ELSE 0

\* actual_amount_in = amount_in.checked_sub(balance).unwrap_or(amount_in)
CostBasis(amount_in, balance_after) ==
  IF amount_in >= balance_after THEN amount_in - balance_after ELSE amount_in

\* require!(actual_usdc_received >= exact_usdc_out, InsufficientOutputAmount)
\* without the comparison
ReceivedAnything(actual_usdc_received, exact_usdc_out) == TRUE

\* require!(actual_usdc_received >= exact_usdc_out, InsufficientOutputAmount)
ReceivedEnough(actual_usdc_received, exact_usdc_out) ==
  actual_usdc_received >= exact_usdc_out

pay_any_token_handler(cfg, tok, pays, stats, now, a, pl, agg) ==
  LET unchanged == [cfg |-> cfg, tok |-> tok, pays |-> pays, stats |-> stats]
      pre == PayPrecheck(cfg, tok, now, a, pl)
      is_direct_usdc == a.input_mint = "USDC"
      payer_input == <<a.payer, a.input_mint>>
      payer_usdc == <<a.payer, "USDC">>
      merchant_usdc == <<a.merchant, "USDC">>
      temp_usdc == <<TempOwner[a.payer], "USDC">>
      temp_usdc_balance_before == tok[temp_usdc]
      tok1 == [[tok EXCEPT ![payer_input] = @ - agg.spent]
                 EXCEPT ![temp_usdc] = @ + agg.out_delta]
      swapped == [unchanged EXCEPT !.tok = tok1]
      temp_usdc_balance_after == tok1[temp_usdc]
      actual_usdc_received == temp_usdc_balance_after - temp_usdc_balance_before
      tok2 == Transfer(tok1, temp_usdc, merchant_usdc, a.exact_usdc_out)
      excess_usdc == IF actual_usdc_received >= a.exact_usdc_out
                       THEN actual_usdc_received - a.exact_usdc_out ELSE 0
      tok3 == IF excess_usdc > 0
                THEN Transfer(tok2, temp_usdc, payer_usdc, excess_usdc)
                ELSE tok2
      actual_amount_in == IF is_direct_usdc THEN a.exact_usdc_out
                          ELSE CostBasis(a.amount_in, tok1[payer_input])
      st2 == UserStatsAfterPayment(stats[a.payer], a.payer, now)
      done(tokN, cpi) ==
        [err |-> "Ok", cpi |-> cpi, cfg |-> cfg, tok |-> tokN,
         pays |-> (<<a.payer, a.merchant, now>> :>
                     PaymentRecord(a, actual_amount_in, now)) @@ pays,
         stats |-> [stats EXCEPT ![a.payer] = st2]]
  IN  IF PayAccounts(cfg, pays, now, a) # "Ok"
        THEN Failed(PayAccounts(cfg, pays, now, a), FALSE) @@ unchanged
      ELSE IF pre # "Ok" THEN Failed(pre, FALSE) @@ unchanged
      ELSE IF is_direct_usdc
        THEN IF ~CanTransfer(tok, payer_input, a.exact_usdc_out)
               THEN Failed("TokenError::InsufficientFunds", FALSE) @@ unchanged
               ELSE done(Transfer(tok, payer_input, merchant_usdc,
                                  a.exact_usdc_out), FALSE)
      ELSE IF ~agg.ok
        THEN Failed("JupiterError::CpiInvocationFailed", TRUE) @@ unchanged
      ELSE IF temp_usdc_balance_after < temp_usdc_balance_before
        THEN Abort("FlowMintError::MathOverflow", TRUE, unchanged, swapped)
      ELSE IF ~ReceivedEnough(actual_usdc_received, a.exact_usdc_out)
        THEN Abort("FlowMintError::InsufficientOutputAmount", TRUE, unchanged,
                   swapped)
      ELSE IF ~CanTransfer(tok1, temp_usdc, a.exact_usdc_out)
        THEN Abort("TokenError::InsufficientFunds", TRUE, unchanged, swapped)
      ELSE IF excess_usdc > 0 /\ ~CanTransfer(tok2, temp_usdc, excess_usdc)
        THEN Abort("TokenError::InsufficientFunds", TRUE, unchanged,
                   [unchanged EXCEPT !.tok = tok2])
      ELSE done(tok3, TRUE)

(***************************************************************************)
(* State machine.  A transaction is submitted (call.status = "pending"),   *)
(* processed by its instruction handler in one atomic step ("done", with   *)
(* the result in call.err and call.cpi recording whether the aggregator    *)
(* was invoked), and then acknowledged ("idle").  One call at a time.      *)
(***************************************************************************)
MaxTime == 1

Idle == [status |-> "idle"]

Pending(op, a) == [status |-> "pending", op |-> op, a |-> a]

Done(op, a, err, cpi, agg) ==
  [status |-> "done", op |-> op, a |-> a, err |-> err, cpi |-> cpi, agg |-> agg]

IsPending(op) == call.status = "pending" /\ call.op = op

IsDone(op) == call.status = "done" /\ call.op = op

NoPure == [fn |-> "none"]

Init ==
  /\ config = NoConfig
  /\ clock = 0
  /\ token = InitToken
  /\ receipts = <<>>
  /\ payments = <<>>
  /\ user_stats = [u \in Users |-> NoUserStats]
  /\ call = Idle
  /\ pin = NoPure
  /\ pout = None

Opt(S) == {None} \cup {Some(v) : v \in S}

Submit(Requests) ==
  /\ call.status = "idle"
  /\ \E r \in Requests : call' = r
  /\ UNCHANGED <<state, clock, pin, pout>>

Complete ==
  /\ call.status = "done"
  /\ call' = Idle
  /\ UNCHANGED <<state, clock, pin, pout>>

Tick ==
  /\ call.status = "idle"
  /\ clock < MaxTime
  /\ clock' = clock + 1
  /\ UNCHANGED <<state, call, pin, pout>>

Initialize ==
  /\ IsPending("initialize")
  /\ LET a == call.a
         r == initialize(config, a.caller, a.default_slippage_bps,
                         a.protected_slippage_bps, a.max_price_impact_bps,
                         a.treasury)
     IN  /\ config' = r.cfg
         /\ call' = Done("initialize", a, r.err, FALSE, NoEffect)
  /\ UNCHANGED <<clock, token, receipts, payments, user_stats, pin, pout>>

UpdateConfig ==
  /\ IsPending("update_config")
  /\ LET a == call.a
         r == update_config_handler(config, a.caller,
                a.new_default_slippage_bps, a.new_protected_slippage_bps,
                a.new_max_price_impact_bps, a.new_protocol_fee_bps,
                a.new_treasury)
     IN  /\ config' = r.cfg
         /\ call' = Done("update_config", a, r.err, FALSE, NoEffect)
  /\ UNCHANGED <<clock, token, receipts, payments, user_stats, pin, pout>>

ToggleProtectedMode ==
  /\ IsPending("toggle_protected_mode")
  /\ LET a == call.a
         r == toggle_protected_mode_handler(config, a.caller, a.enabled)
     IN  /\ config' = r.cfg
         /\ call' = Done("toggle_protected_mode", a, r.err, FALSE, NoEffect)
  /\ UNCHANGED <<clock, token, receipts, payments, user_stats, pin, pout>>

WithdrawFees ==
  /\ IsPending("withdraw_fees")
  /\ LET a == call.a
         r == withdraw_fees_handler(config, token, a.caller, a.usdc_mint,
                                    a.fee_vault, a.treasury_account)
     IN  /\ config' = r.cfg
         /\ token' = r.tok
         /\ call' = Done("withdraw_fees", a, r.err, FALSE, NoEffect)
  /\ UNCHANGED <<clock, receipts, payments, user_stats, pin, pout>>

(***************************************************************************)
(* Administration on its own: initialize, update_config and                *)
(* toggle_protected_mode over a range of parameter values.                 *)
(***************************************************************************)
DefaultSlippageVals == {10, 100, 5000, 5001}

ProtectedSlippageVals == {20, 50, 5000, 5001}

PriceImpactVals == {500, 5000, 5001}

ProtocolFeeVals == {30, 10000, 10001}

InitializeRequests(Cs, Ds, Ps, Ms, Ts) ==
  {Pending("initialize",
           [caller |-> c, default_slippage_bps |-> d,
            protected_slippage_bps |-> p, max_price_impact_bps |-> m,
            treasury |-> t]) :
     c \in Cs, d \in Ds, p \in Ps, m \in Ms, t \in Ts}

UpdateConfigRequests(Ds, Ps, Ms, Fs, Ts) ==
  {Pending("update_config",
           [caller |-> c, new_default_slippage_bps |-> d,
            new_protected_slippage_bps |-> p, new_max_price_impact_bps |-> m,
            new_protocol_fee_bps |-> f, new_treasury |-> t]) :
     c \in Users, d \in Opt(Ds), p \in Opt(Ps), m \in Opt(Ms), f \in Opt(Fs),
     t \in Opt(Ts)}

ToggleRequests ==
  {Pending("toggle_protected_mode", [caller |-> c, enabled |-> e]) :
     c \in Users, e \in BOOLEAN}

AdminRequests ==
  InitializeRequests(Users, DefaultSlippageVals, ProtectedSlippageVals,
                     PriceImpactVals, {"treasury1"})
    \cup UpdateConfigRequests(DefaultSlippageVals, ProtectedSlippageVals,
                              PriceImpactVals, ProtocolFeeVals, {"treasury2"})
    \cup ToggleRequests

SubmitAdmin == Submit(AdminRequests)

NextAdmin ==
  SubmitAdmin \/ Initialize \/ UpdateConfig \/ ToggleProtectedMode \/ Complete

SpecAdmin == Init /\ [][NextAdmin]_vars

(***************************************************************************)
(* Fee withdrawal with the other authority-gated calls.  The fee vault is  *)
(* funded from outside the program; it starts empty or holding VaultFunds. *)
(***************************************************************************)
VaultFunds == 3

InitFees ==
  /\ config = NoConfig
  /\ clock = 0
  /\ \E v \in {0, VaultFunds} :
       token = [InitToken EXCEPT ![FeeVaultAddress("USDC")] = v]
  /\ receipts = <<>>
  /\ payments = <<>>
  /\ user_stats = [u \in Users |-> NoUserStats]
  /\ call = Idle
  /\ pin = NoPure
  /\ pout = None

WithdrawRequests ==
  {Pending("withdraw_fees",
           [caller |-> c, usdc_mint |-> m, fee_vault |-> f,
            treasury_account |-> t]) :
     c \in Users, m \in Mints,
     f \in {FeeVaultAddress("USDC"), <<"alice", "USDC">>},
     t \in {<<"treasury1", "USDC">>, <<"treasury2", "USDC">>,
            <<"treasury1", "SOL">>}}

FeesRequests ==
  InitializeRequests(Users, {100}, {50}, {5000}, {"treasury1"})
    \cup UpdateConfigRequests({10}, {}, {}, {30}, {"treasury2"})
    \cup ToggleRequests
    \cup WithdrawRequests

SubmitFees == Submit(FeesRequests)

NextFees ==
  \/ SubmitFees
  \/ Initialize
  \/ UpdateConfig
  \/ ToggleProtectedMode
  \/ WithdrawFees
  \/ Complete

SpecFees == InitFees /\ [][NextFees]_vars

(***************************************************************************)
(* execute_swap and pay_any_token.  The aggregator's effect is chosen when *)
(* the handler reaches the CPI, among the effects the balances allow.      *)
(***************************************************************************)
SwapEffects(tok, a) ==
  {NoEffect} \cup
  {Effect(a.amount_in, d) : d \in {dd \in {-1, 4, 5, 7} :
                                     tok[<<a.user, a.output_mint>>] + dd >= 0}}

ExecuteSwap ==
  /\ IsPending("execute_swap")
  /\ LET a == call.a
         reached == /\ SwapAccounts(config, receipts, clock, a) = "Ok"
                    /\ SwapPrecheck(config, token, clock, a, a.payload) = "Ok"
     IN  \E agg \in IF reached THEN SwapEffects(token, a) ELSE {NoEffect} :
           LET r == execute_swap_handler(config, token, receipts, user_stats,
                                         clock, a, a.payload, agg)
           IN  /\ config' = r.cfg
               /\ token' = r.tok
               /\ receipts' = r.rcpts
               /\ user_stats' = r.stats
               /\ call' = Done("execute_swap", a, r.err, r.cpi, agg)
  /\ UNCHANGED <<clock, payments, pin, pout>>

\* In a payment the aggregator delivers to the holding account, which it
\* has no authority to debit, and spends up to the route's in_amount.
PayEffects(tok, a) ==
  {NoEffect} \cup
  {Effect(sp, d) : sp \in {a.amount_in - 1, a.amount_in}, d \in {4, 5, 7}}

PayAnyToken ==
  /\ IsPending("pay_any_token")
  /\ LET a == call.a
         reached == /\ PayAccounts(config, payments, clock, a) = "Ok"
                    /\ PayPrecheck(config, token, clock, a, a.payload) = "Ok"
                    /\ a.input_mint # "USDC"
     IN  \E agg \in IF reached THEN PayEffects(token, a) ELSE {NoEffect} :
           LET r == pay_any_token_handler(config, token, payments, user_stats,
                                          clock, a, a.payload, agg)
           IN  /\ config' = r.cfg
               /\ token' = r.tok
               /\ payments' = r.pays
               /\ user_stats' = r.stats
               /\ call' = Done("pay_any_token", a, r.err, r.cpi, agg)
  /\ UNCHANGED <<clock, receipts, pin, pout>>

(***************************************************************************)
(* Requests.  A route payload is the quote matching the caller's intent,   *)
(* or that quote with some fields altered, or no or an undecodable payload.*)
(***************************************************************************)
Fees(seq) == [i \in DOMAIN seq |-> RouteStep(seq[i])]

MatchingRoute(im, om, amount_in) ==
  JupiterRoute(im, om, amount_in, 6, 50, <<>>, 0, 1)

RouteVariants(r) ==
  {r,
   [r EXCEPT !.input_mint = "USDC"],
   [r EXCEPT !.output_mint = "SOL"],
   [r EXCEPT !.in_amount = @ + 1],
   [r EXCEPT !.out_amount = 4],
   [r EXCEPT !.slippage_bps = 100],
   [r EXCEPT !.slippage_bps = 101],
   [r EXCEPT !.route_steps = Fees(<<1>>)],
   [r EXCEPT !.route_steps = Fees(<<6>>)],
   [r EXCEPT !.route_steps = Fees(<<35, 35>>)],
   [r EXCEPT !.quote_expiration_seconds = 0],
   [r EXCEPT !.quote_expiration_seconds = 0, !.in_amount = @ + 1],
   [r EXCEPT !.quote_expiration_seconds = 0, !.route_steps = Fees(<<6>>)],
   [r EXCEPT !.input_mint = "USDC", !.output_mint = "SOL",
             !.slippage_bps = 101]}

Payloads(r) ==
  {NoPayload, GarbagePayload} \cup {RoutePayload(v) : v \in RouteVariants(r)}

SwapArgs(u, ai, mo, s, pm, pl) ==
  Pending("execute_swap",
          [user |-> u, input_mint |-> "SOL", output_mint |-> "USDC",
           amount_in |-> ai, minimum_amount_out |-> mo, slippage_bps |-> s,
           protected_mode |-> pm, payload |-> pl])

SwapRequests(Us) ==
  {SwapArgs(u, 10, 5, 50, pm, pl) :
     u \in Us, pm \in BOOLEAN, pl \in Payloads(MatchingRoute("SOL", "USDC", 10))}
  \cup
  {SwapArgs(u, 10, 5, s, pm, RoutePayload(MatchingRoute("SOL", "USDC", 10))) :
     u \in Us, s \in {50, 100, 101}, pm \in BOOLEAN}
  \cup
  {SwapArgs(u, ai, mo, 50, FALSE,
            RoutePayload(MatchingRoute("SOL", "USDC", ai))) :
     u \in Us, ai \in {0, 5, 10, 11}, mo \in {0, 5}}

\* the bytes of a memo of n non-zero bytes
MemoOfLength(n) == [i \in 1..n |-> (i % 250) + 1]

PayArgs(u, im, ai, eo, m, pl) ==
  Pending("pay_any_token",
          [payer |-> u, merchant |-> "shop", input_mint |-> im,
           amount_in |-> ai, exact_usdc_out |-> eo, memo |-> m,
           payload |-> pl])

PayRequests(Us) ==
  {PayArgs(u, "SOL", 10, 5, None, pl) :
     u \in Us, pl \in Payloads(MatchingRoute("SOL", "USDC", 10))}
  \cup
  {PayArgs(u, im, ai, eo, None,
           IF im = "SOL" THEN RoutePayload(MatchingRoute(im, "USDC", ai))
                         ELSE NoPayload) :
     u \in Us, im \in Mints, ai \in {0, 10, 11}, eo \in {0, 5}}
  \cup
  {PayArgs(u, "SOL", ai, 5, None,
           RoutePayload(MatchingRoute("SOL", "USDC", ai))) :
     u \in Us, ai \in {4, 6}}
  \cup
  {PayArgs(u, "USDC", ai, 5, m, NoPayload) :
     u \in Us, ai \in {3, 5}, m \in {None, Some(<<7, 8>>)}}
  \cup
  {PayArgs(u, "USDC", 5, 5, Some(MemoOfLength(n)), NoPayload) :
     u \in Us, n \in {0, MAX_MEMO_LENGTH, MAX_MEMO_LENGTH + 1}}

AdminOnlyRequests ==
  InitializeRequests({"alice"}, {100, 5001}, {50}, {5000}, {"treasury1"})
    \cup UpdateConfigRequests({10}, {}, {}, {}, {})
    \cup ToggleRequests

\* alice submits every variant, bob the plain ones
PlainRequests(u) ==
  {SwapArgs(u, 10, 5, 50, FALSE,
            RoutePayload(MatchingRoute("SOL", "USDC", 10))),
   PayArgs(u, "SOL", 10, 5, None,
           RoutePayload(MatchingRoute("SOL", "USDC", 10))),
   PayArgs(u, "USDC", 5, 5, None, NoPayload)}

Requests ==
  AdminOnlyRequests \cup SwapRequests({"alice"}) \cup PayRequests({"alice"})
    \cup PlainRequests("bob")

\* The ledger (receipts and payment records) is explored up to MaxRecords.
MaxRecords == 2

LedgerSize == Cardinality(DOMAIN receipts) + Cardinality(DOMAIN payments)

SubmitRequest ==
  Submit(IF LedgerSize < MaxRecords THEN Requests ELSE AdminOnlyRequests)

Next ==
  \/ SubmitRequest
  \/ Initialize
  \/ UpdateConfig
  \/ ToggleProtectedMode
  \/ ExecuteSwap
  \/ PayAnyToken
  \/ Complete
  \/ Tick

Spec == Init /\ [][Next]_vars

(***************************************************************************)
(* C1.  After initialize and any sequence of successful update_config      *)
(* calls, each supplying any subset of the optional fields, the stored     *)
(* protected_slippage_bps is at most the stored default_slippage_bps.      *)
(***************************************************************************)
C1_ProtectedAtMostDefault ==
  config.exists =>
    config.protected_slippage_bps <= config.default_slippage_bps

(***************************************************************************)
(* The pure functions of jupiter.rs applied to drawn inputs: pin holds the *)
(* function and its arguments, pout its result once applied.               *)
(***************************************************************************)
ValidateInputs ==
  {[fn |-> "validate",
    route |-> JupiterRoute(im, om, ia, oa, s, <<>>, 0, 0),
    expected_input_mint |-> ei, expected_output_mint |-> "USDC",
    expected_amount_in |-> 10, minimum_amount_out |-> 5,
    max_slippage_bps |-> 50] :
     im \in Mints, om \in Mints, ia \in {10, 11}, oa \in {4, 5, 6},
     s \in {49, 50, 51}, ei \in Mints}

IsExpiredInputs ==
  {[fn |-> "is_expired",
    route |-> JupiterRoute("SOL", "USDC", 1000, 900, 50, <<>>, qt, qe),
    current_timestamp |-> now] :
     qt \in {0, 1000}, qe \in {-1, 0, 30},
     now \in {0, 1, 30, 31, 999, 1000, 1001, 1015, 1030, 1031}}

VerifyInputs ==
  {[fn |-> "verify_swap_output", actual_out |-> ao, minimum_out |-> mo,
    max_slippage_bps |-> ms, expected_out |-> eo] :
     ao \in {0, 500, 989, 990, 1000, 1010, 214749, 214750, 429497},
     mo \in {0, 1, 600, 1000}, ms \in {0, 50, 100, 65535},
     eo \in {0, 1, 1000}}

PriceImpactInputs ==
  {[fn |-> "calculate_price_impact",
    route |-> JupiterRoute("SOL", "USDC", ia, oa, 50, Fees(fs), 0, 30)] :
     ia \in {0, 10, 1000}, oa \in {0, 900},
     fs \in {<<>>, <<1>>, <<3, 3>>, <<35, 35>>, <<6553, 1>>}}

SlippageInputs ==
  {[fn |-> "calculate_actual_slippage", expected_out |-> eo,
    actual_out |-> ao] :
     eo \in {0, 1, 3, 1000},
     ao \in {0, 1, 2, 989, 990, 1000, 1010, 1011, 214748, 214749, 214750,
             429497}}

PureInputs ==
  ValidateInputs \cup IsExpiredInputs \cup VerifyInputs
    \cup PriceImpactInputs \cup SlippageInputs

InitPure ==
  /\ config = NoConfig
  /\ clock = 0
  /\ token = InitToken
  /\ receipts = <<>>
  /\ payments = <<>>
  /\ user_stats = [u \in Users |-> NoUserStats]
  /\ call = Idle
  /\ pin \in PureInputs
  /\ pout = None

ApplyValidate ==
  /\ pin.fn = "validate" /\ pout = None
  /\ pout' = Some(validate(pin.route, pin.expected_input_mint,
                           pin.expected_output_mint, pin.expected_amount_in,
                           pin.minimum_amount_out, pin.max_slippage_bps))
  /\ UNCHANGED <<state, clock, call, pin>>

ApplyIsExpired ==
  /\ pin.fn = "is_expired" /\ pout = None
  /\ pout' = Some(is_expired(pin.route, pin.current_timestamp))
  /\ UNCHANGED <<state, clock, call, pin>>

ApplyVerifySwapOutput ==
  /\ pin.fn = "verify_swap_output" /\ pout = None
  /\ pout' = Some(verify_swap_output(pin.actual_out, pin.minimum_out,
                                     pin.max_slippage_bps, pin.expected_out))
  /\ UNCHANGED <<state, clock, call, pin>>

ApplyCalculatePriceImpact ==
  /\ pin.fn = "calculate_price_impact" /\ pout = None
  /\ pout' = Some(calculate_price_impact(pin.route))
  /\ UNCHANGED <<state, clock, call, pin>>

ApplyCalculateActualSlippage ==
  /\ pin.fn = "calculate_actual_slippage" /\ pout = None
  /\ pout' = Some(calculate_actual_slippage(pin.expected_out, pin.actual_out))
  /\ UNCHANGED <<state, clock, call, pin>>

NextPure ==
  \/ ApplyValidate
  \/ ApplyIsExpired
  \/ ApplyVerifySwapOutput
  \/ ApplyCalculatePriceImpact
  \/ ApplyCalculateActualSlippage

SpecPure == InitPure /\ [][NextPure]_vars

Applied(fn) == pin.fn = fn /\ IsSome(pout)

(***************************************************************************)
(* C3.  validate checks input mint, output mint, in_amount equality,       *)
(* out_amount >= required, slippage_bps <= ceiling in that order and       *)
(* returns the error of the first check that fails; it succeeds iff all    *)
(* five hold.                                                              *)
(***************************************************************************)
C3_ValidateFirstFailingCheck ==
  Applied("validate") =>
    LET res == Unwrap(pout)
        c1 == pin.route.input_mint = pin.expected_input_mint
        c2 == pin.route.output_mint = pin.expected_output_mint
        c3 == pin.route.in_amount = pin.expected_amount_in
        c4 == pin.route.out_amount >= pin.minimum_amount_out
        c5 == pin.route.slippage_bps <= pin.max_slippage_bps
    IN  /\ (res = "JupiterError::InvalidInputMint") <=> ~c1
        /\ (res = "JupiterError::InvalidOutputMint") <=> (c1 /\ ~c2)
        /\ (res = "JupiterError::AmountMismatch") <=> (c1 /\ c2 /\ ~c3)
        /\ (res = "JupiterError::InsufficientOutput")
             <=> (c1 /\ c2 /\ c3 /\ ~c4)
        /\ (res = "JupiterError::SlippageExceeded")
             <=> (c1 /\ c2 /\ c3 /\ c4 /\ ~c5)
        /\ (res = "Ok") <=> (c1 /\ c2 /\ c3 /\ c4 /\ c5)

\* every check but the first fails, and the second check's error is returned
C3_Witness ==
  /\ Applied("validate")
  /\ pin.route.input_mint = pin.expected_input_mint
  /\ pin.route.output_mint # pin.expected_output_mint
  /\ pin.route.in_amount # pin.expected_amount_in
  /\ pin.route.out_amount < pin.minimum_amount_out
  /\ pin.route.slippage_bps > pin.max_slippage_bps
  /\ Unwrap(pout) = "JupiterError::InvalidOutputMint"

(***************************************************************************)
(* C5.  verify_swap_output never rejects better-than-quoted execution:     *)
(* with actual_out >= minimum_out and actual_out >= expected_out it        *)
(* succeeds; SlippageExceeded is returned only when actual_out >=          *)
(* minimum_out, actual_out < expected_out and the shortfall in basis       *)
(* points exceeds max_slippage_bps.                                        *)
(***************************************************************************)
C5_BetterThanQuotedAccepted ==
  Applied("verify_swap_output") =>
    /\ (pin.actual_out >= pin.minimum_out /\ pin.actual_out >= pin.expected_out)
         => Unwrap(pout) = "Ok"
    /\ Unwrap(pout) = "JupiterError::SlippageExceeded" =>
         /\ pin.actual_out >= pin.minimum_out
         /\ pin.actual_out < pin.expected_out
         /\ ((pin.expected_out - pin.actual_out) * 10000) \div pin.expected_out
              > pin.max_slippage_bps

(***************************************************************************)
(* C9.  is_expired(route, now) is true iff now > quote_timestamp +         *)
(* quote_expiration_seconds: at now equal to the sum the quote is not      *)
(* expired, one second later it is.                                        *)
(***************************************************************************)
C9_ExpiredStrictlyAfterDeadline ==
  Applied("is_expired") =>
    LET deadline == pin.route.quote_timestamp
                      + pin.route.quote_expiration_seconds
    IN  /\ pin.current_timestamp <= deadline => Unwrap(pout) = FALSE
        /\ pin.current_timestamp >= deadline + 1 => Unwrap(pout) = TRUE

\* the boundary: now equals the deadline and the quote is not expired
C9_Witness ==
  /\ Applied("is_expired")
  /\ pin.current_timestamp
       = pin.route.quote_timestamp + pin.route.quote_expiration_seconds
  /\ Unwrap(pout) = FALSE

(***************************************************************************)
(* Claims about execute_swap and pay_any_token, over Spec.                 *)
(***************************************************************************)
Route == call.a.payload.route

IsConversion == call.a.input_mint # "USDC"

\* the errors of the accounts stage, raised before a handler runs
AccountErrors == {"AccountNotInitialized", "AccountAlreadyInUse"}

\* the exact price impact in basis points, without narrowing
ExactPriceImpact(r) ==
  IF r.in_amount = 0 \/ r.out_amount = 0 THEN 0
  ELSE (SumFees(r.route_steps) * 10000) \div r.in_amount

EffectiveProtected == call.a.protected_mode \/ config.protected_mode_enabled

(***************************************************************************)
(* C2.  execute_swap and the conversion case of pay_any_token never invoke *)
(* the aggregator with a route whose input mint, output mint or in_amount  *)
(* differs from the declared input mint, output mint (USDC for payments)   *)
(* or amount_in; such a route is rejected whatever its other fields are.   *)
(***************************************************************************)
RouteMatchesIntent(declared_output) ==
  /\ Route.input_mint = call.a.input_mint
  /\ Route.output_mint = declared_output
  /\ Route.in_amount = call.a.amount_in

C2_NoInvocationWithForeignRoute ==
  /\ IsDone("execute_swap") =>
       /\ call.cpi => call.a.payload.decodes
                        /\ RouteMatchesIntent(call.a.output_mint)
       /\ (call.a.payload.decodes /\ ~RouteMatchesIntent(call.a.output_mint))
            => call.err # "Ok"
  /\ (IsDone("pay_any_token") /\ IsConversion) =>
       /\ call.cpi => call.a.payload.decodes /\ RouteMatchesIntent("USDC")
       /\ (call.a.payload.decodes /\ ~RouteMatchesIntent("USDC"))
            => call.err # "Ok"

\* a quote for one more input token than declared, otherwise valid, rejected
C2_Witness ==
  /\ IsDone("execute_swap")
  /\ call.a.payload.decodes
  /\ Route.in_amount = call.a.amount_in + 1
  /\ Route.input_mint = call.a.input_mint
  /\ Route.output_mint = call.a.output_mint
  /\ call.err = "JupiterError::AmountMismatch"
  /\ ~call.cpi

(***************************************************************************)
(* C4.  Under protected policy (per-call flag or global flag) execute_swap *)
(* fails with PriceImpactTooHigh whenever the route's price impact,        *)
(* floor(sum of fee amounts x 10000 / in_amount), exceeds                  *)
(* max_price_impact_bps, whatever the size of the ratio.                   *)
(***************************************************************************)
ErrorsBeforePriceImpact ==
  AccountErrors \cup
  {"FlowMintError::SlippageExceeded", "FlowMintError::InsufficientBalance",
   "FlowMintError::AmountTooSmall", "FlowMintError::InvalidInstructionData",
   "JupiterError::DeserializationFailed", "JupiterError::InvalidInputMint",
   "JupiterError::InvalidOutputMint", "JupiterError::AmountMismatch",
   "JupiterError::InsufficientOutput", "JupiterError::SlippageExceeded",
   "FlowMintError::QuoteExpired"}

C4_PriceImpactCeilingEnforced ==
  (/\ IsDone("execute_swap")
   /\ EffectiveProtected
   /\ call.a.payload.decodes
   /\ ExactPriceImpact(Route) > config.max_price_impact_bps
   /\ ~(call.err \in ErrorsBeforePriceImpact /\ ~call.cpi))
    => call.err = "FlowMintError::PriceImpactTooHigh"

(***************************************************************************)
(* C6.  Whenever the realized output is below minimum_amount_out the swap  *)
(* fails with InsufficientOutput, whatever the quote and the slippage      *)
(* tolerance are; no execute_swap succeeds with a realized output below    *)
(* the caller's minimum_amount_out.                                        *)
(***************************************************************************)
C6_OutputFloorEnforced ==
  IsDone("execute_swap") =>
    /\ (call.cpi /\ call.agg.ok /\ call.agg.out_delta >= 0
          /\ call.agg.out_delta < call.a.minimum_amount_out)
         => call.err = "JupiterError::InsufficientOutput"
    /\ call.err = "Ok" =>
         /\ call.agg.out_delta >= call.a.minimum_amount_out
         /\ receipts[<<call.a.user, clock>>].amount_out
              >= call.a.minimum_amount_out

\* the aggregator delivers 4 where 5 is the minimum, and the swap fails
C6_Witness ==
  /\ IsDone("execute_swap")
  /\ call.cpi /\ call.agg.ok
  /\ call.agg.out_delta >= 0
  /\ call.agg.out_delta < call.a.minimum_amount_out
  /\ call.err = "JupiterError::InsufficientOutput"

(***************************************************************************)
(* C7.  The handler of execute_swap rejects with its policy error          *)
(* SlippageExceeded exactly when the caller's slippage_bps exceeds the     *)
(* applicable ceiling: protected_slippage_bps when the per-call flag or    *)
(* the global flag is set, default_slippage_bps otherwise.  While the      *)
(* global flag is on, no swap with slippage_bps above                      *)
(* protected_slippage_bps succeeds.                                        *)
(***************************************************************************)
SlippageCeiling ==
  IF call.a.protected_mode \/ config.protected_mode_enabled
    THEN config.protected_slippage_bps
    ELSE config.default_slippage_bps

C7_SlippagePolicy ==
  IsDone("execute_swap") =>
    /\ call.err \notin AccountErrors =>
         ((call.err = "FlowMintError::SlippageExceeded")
            <=> (call.a.slippage_bps > SlippageCeiling))
    /\ (config.protected_mode_enabled
          /\ call.a.slippage_bps > config.protected_slippage_bps)
         => call.err # "Ok"

\* global flag on, per-call flag off, slippage within the default ceiling
\* but above the protected one: rejected
C7_Witness ==
  /\ IsDone("execute_swap")
  /\ config.protected_mode_enabled
  /\ ~call.a.protected_mode
  /\ call.a.slippage_bps <= config.default_slippage_bps
  /\ call.a.slippage_bps > config.protected_slippage_bps
  /\ call.err = "FlowMintError::SlippageExceeded"

(***************************************************************************)
(* C8.  While the global protected-mode flag is enabled, a conversion      *)
(* payment whose route slippage_bps exceeds protected_slippage_bps, or     *)
(* whose route price impact exceeds max_price_impact_bps, does not         *)
(* succeed.                                                                *)
(***************************************************************************)
C8_PaymentsHeldToProtectedPolicy ==
  (/\ IsDone("pay_any_token")
   /\ IsConversion
   /\ config.protected_mode_enabled
   /\ call.a.payload.decodes
   /\ \/ Route.slippage_bps > config.protected_slippage_bps
      \/ ExactPriceImpact(Route) > config.max_price_impact_bps)
    => call.err # "Ok"

(***************************************************************************)
(* C10.  In execute_swap and in the conversion case of pay_any_token, a    *)
(* call that gets as far as a route that passes validate but is expired at *)
(* the call's clock time fails with QuoteExpired, with no aggregator       *)
(* invocation and no state change; a receipt or a conversion payment       *)
(* record is created only for a quote unexpired at call time.              *)
(***************************************************************************)
PastDeadline(r, now) ==
  now > r.quote_timestamp + r.quote_expiration_seconds

SwapReachesExpiryCheck ==
  LET a == call.a
  IN  /\ config.exists
      /\ <<a.user, clock>> \notin DOMAIN receipts
      /\ a.slippage_bps <= SlippageCeiling
      /\ token[<<a.user, a.input_mint>>] >= a.amount_in
      /\ a.amount_in > 0 /\ a.minimum_amount_out > 0
      /\ a.payload.present /\ a.payload.decodes
      /\ RouteMatchesIntent(a.output_mint)
      /\ Route.out_amount >= a.minimum_amount_out
      /\ Route.slippage_bps <= a.slippage_bps

PayReachesExpiryCheck ==
  LET a == call.a
  IN  /\ config.exists
      /\ <<a.payer, a.merchant, clock>> \notin DOMAIN payments
      /\ a.amount_in > 0 /\ a.exact_usdc_out > 0
      /\ token[<<a.payer, a.input_mint>>] >= a.amount_in
      /\ IsConversion
      /\ a.payload.present /\ a.payload.decodes
      /\ RouteMatchesIntent("USDC")
      /\ Route.out_amount >= a.exact_usdc_out
      /\ Route.slippage_bps <= config.default_slippage_bps

RejectedAsExpired ==
  /\ call'.err = "FlowMintError::QuoteExpired"
  /\ ~call'.cpi
  /\ UNCHANGED state

C10_ExpiredQuoteRejected ==
  [][/\ (IsPending("execute_swap") /\ SwapReachesExpiryCheck
           /\ PastDeadline(Route, clock)) => RejectedAsExpired
     /\ (IsPending("pay_any_token") /\ PayReachesExpiryCheck
           /\ PastDeadline(Route, clock)) => RejectedAsExpired
     /\ (IsPending("execute_swap") /\ receipts' # receipts)
          => ~PastDeadline(Route, clock)
     /\ (IsPending("pay_any_token") /\ IsConversion /\ payments' # payments)
          => ~PastDeadline(Route, clock)]_vars

\* a conversion payment whose quote is valid in every field but one second
\* past its deadline, rejected before the aggregator is called
C10_Witness ==
  /\ IsDone("pay_any_token")
  /\ IsConversion
  /\ call.a.payload.decodes
  /\ RouteMatchesIntent("USDC")
  /\ clock = Route.quote_timestamp + Route.quote_expiration_seconds + 1
  /\ call.err = "FlowMintError::QuoteExpired"
  /\ ~call.cpi

(***************************************************************************)
(* C11.  Within one call the aggregator is invoked at most once, and only  *)
(* after every pre-execution check has passed: slippage policy, balance,   *)
(* non-zero amounts, route decode, route validate, expiration, and price   *)
(* impact under protected policy.  A call rejected by a Policy, Input or   *)
(* Route/quote error performs no aggregator invocation and no token        *)
(* transfer.                                                               *)
(***************************************************************************)
SwapChecksPassed ==
  /\ SwapReachesExpiryCheck
  /\ ~PastDeadline(Route, clock)
  /\ EffectiveProtected
       => calculate_price_impact(Route) <= config.max_price_impact_bps

PayChecksPassed == PayReachesExpiryCheck /\ ~PastDeadline(Route, clock)

\* errors that only a pre-execution check returns
RejectionErrors ==
  {"FlowMintError::SlippageExceeded", "FlowMintError::PriceImpactTooHigh",
   "FlowMintError::AmountTooSmall", "FlowMintError::InsufficientBalance",
   "FlowMintError::InvalidInstructionData", "FlowMintError::QuoteExpired",
   "JupiterError::DeserializationFailed", "JupiterError::InvalidInputMint",
   "JupiterError::InvalidOutputMint", "JupiterError::AmountMismatch"}

\* a successful call shows the effect of exactly one aggregator invocation
OneInvocation(signer) ==
  (call'.err = "Ok" /\ call'.cpi) =>
    token'[<<signer, call.a.input_mint>>]
      = token[<<signer, call.a.input_mint>>] - call'.agg.spent

C11_InvokedOnlyAfterAllChecks ==
  [][/\ IsPending("execute_swap") =>
          /\ call'.cpi => SwapChecksPassed
          /\ call'.err \in RejectionErrors => ~call'.cpi /\ token' = token
          /\ OneInvocation(call.a.user)
     /\ IsPending("pay_any_token") =>
          /\ call'.cpi => PayChecksPassed
          /\ call'.err \in RejectionErrors => ~call'.cpi /\ token' = token
          /\ OneInvocation(call.a.payer)]_vars

\* a swap stopped by the last pre-execution check, the price impact one
C11_Witness ==
  /\ IsDone("execute_swap")
  /\ call.err = "FlowMintError::PriceImpactTooHigh"
  /\ ~call.cpi
  /\ Route.slippage_bps <= call.a.slippage_bps
  /\ ~PastDeadline(Route, clock)

PayerInput == <<call.a.payer, call.a.input_mint>>

PayerUsdc == <<call.a.payer, "USDC">>

MerchantUsdc == <<call.a.merchant, "USDC">>

HoldingAccount == <<TempOwner[call.a.payer], "USDC">>

RecordKey == <<call.a.payer, call.a.merchant, clock>>

C13_DirectPayment ==
  [][(IsPending("pay_any_token") /\ ~IsConversion) =>
       /\ ~call'.cpi
       /\ call'.err \notin {"FlowMintError::InvalidInstructionData",
                            "JupiterError::DeserializationFailed"}
       /\ call'.err = "Ok" =>
            /\ token'[PayerInput] = token[PayerInput] - call.a.exact_usdc_out
            /\ token'[MerchantUsdc]
                 = token[MerchantUsdc] + call.a.exact_usdc_out
            /\ token'[HoldingAccount] = token[HoldingAccount]
            /\ \A acct \in TokenAccounts \ {PayerInput, MerchantUsdc} :
                 token'[acct] = token[acct]
            /\ payments'[RecordKey].amount_in = call.a.exact_usdc_out
            /\ payments'[RecordKey].usdc_amount = call.a.exact_usdc_out]_vars

\* a direct payment of 5 with a declared maximum of 10 and no route payload
C13_Witness ==
  /\ IsDone("pay_any_token")
  /\ ~IsConversion
  /\ call.err = "Ok"
  /\ ~call.a.payload.present
  /\ call.a.amount_in > call.a.exact_usdc_out
  /\ payments[RecordKey].amount_in = call.a.exact_usdc_out

(***************************************************************************)
(* C14.  In every successful pay_any_token the payer's input-asset account *)
(* is debited by at most the declared amount_in maximum, also in a direct  *)
(* payment whose exact_usdc_out is larger than amount_in.                  *)
(***************************************************************************)
C14_DebitAtMostDeclaredMaximum ==
  [][(IsPending("pay_any_token") /\ call'.err = "Ok") =>
       token[PayerInput] - token'[PayerInput] <= call.a.amount_in]_vars

(***************************************************************************)
(* C15.  In a successful conversion payment whose holding account received *)
(* exact_usdc_out + surplus, the merchant's balance increases by exactly   *)
(* exact_usdc_out, the payer's stablecoin account by exactly surplus (no   *)
(* refund when surplus = 0), and the holding account ends at its pre-call  *)
(* balance.                                                                *)
(***************************************************************************)
C15_ExactSettlementWithRefund ==
  [][(IsPending("pay_any_token") /\ IsConversion /\ call'.err = "Ok") =>
       LET surplus == call'.agg.out_delta - call.a.exact_usdc_out
       IN  /\ surplus >= 0
           /\ token'[MerchantUsdc]
                = token[MerchantUsdc] + call.a.exact_usdc_out
           /\ token'[PayerUsdc] = token[PayerUsdc] + surplus
           /\ token'[HoldingAccount] = token[HoldingAccount]]_vars

\* a conversion that delivered 2 more than the merchant is owed
C15_Witness ==
  /\ IsDone("pay_any_token")
  /\ IsConversion
  /\ call.err = "Ok"
  /\ call.agg.out_delta = call.a.exact_usdc_out + 2
  /\ token[MerchantUsdc] >= call.a.exact_usdc_out
  /\ token[HoldingAccount] = 0

(***************************************************************************)
(* C16.  A conversion payment whose realized receipt into the holding      *)
(* account is less than exact_usdc_out fails with InsufficientOutputAmount;*)
(* the merchant is credited nothing and no PaymentRecord or stats update   *)
(* persists.                                                               *)
(***************************************************************************)
C16_ShortReceiptRejected ==
  [][(IsPending("pay_any_token") /\ IsConversion /\ call'.cpi
        /\ call'.agg.ok /\ call'.agg.out_delta < call.a.exact_usdc_out) =>
       /\ call'.err = "FlowMintError::InsufficientOutputAmount"
       /\ token'[MerchantUsdc] = token[MerchantUsdc]
       /\ payments' = payments
       /\ user_stats' = user_stats]_vars

\* the aggregator delivered 4 where 5 were owed
C16_Witness ==
  /\ IsDone("pay_any_token")
  /\ IsConversion
  /\ call.cpi
  /\ call.agg.ok
  /\ call.agg.out_delta < call.a.exact_usdc_out
  /\ call.err = "FlowMintError::InsufficientOutputAmount"

(***************************************************************************)
(* C17.  For every successful payment PaymentRecord.amount_in equals the   *)
(* amount of input tokens the payer actually spent in the call: the        *)
(* payer's pre-call input-asset balance minus its post-call balance.       *)
(***************************************************************************)
C17_RecordedInputIsAmountSpent ==
  [][(IsPending("pay_any_token") /\ call'.err = "Ok") =>
       payments'[RecordKey].amount_in
         = token[PayerInput] - token'[PayerInput]]_vars

UserOutput == <<call.a.user, call.a.output_mint>>

ReceiptKey == <<call.a.user, clock>>

C19_ReceiptRecordsRealizedOutput ==
  [][(IsPending("execute_swap") /\ call'.err = "Ok") =>
       LET receipt == receipts'[ReceiptKey]
       IN  /\ receipt.amount_out = token'[UserOutput] - token[UserOutput]
           /\ receipt.amount_in = call.a.amount_in
           /\ receipt.slippage_bps = call.a.slippage_bps
           /\ receipt.protected_mode
                = (call.a.protected_mode \/ config.protected_mode_enabled)
    ]_vars

\* a swap under the global flag that delivered 7 where 6 were quoted
C19_Witness ==
  /\ IsDone("execute_swap")
  /\ call.err = "Ok"
  /\ call.agg.out_delta # Route.out_amount
  /\ receipts[ReceiptKey].amount_out = call.agg.out_delta
  /\ ~call.a.protected_mode
  /\ receipts[ReceiptKey].protected_mode

(***************************************************************************)
(* C20.  Each successful execute_swap increases the caller's               *)
(* UserStats.total_swaps and ProtocolConfig.total_swaps by exactly 1,      *)
(* staying at 2^64-1 once that maximum is reached and never wrapping to 0; *)
(* a failed swap changes neither counter, and no operation ever decreases  *)
(* them.  Checked on a protocol with a history: initialized, the counters  *)
(* at zero, at a limb boundary, one below the maximum, or at the maximum.  *)
(***************************************************************************)
CounterValues ==
  {u64(0), u64(U16_MODULUS - 1), [U64_MAX EXCEPT ![1] = @ - 1], U64_MAX}

\* x < y for two u64 values, comparing from the most significant limb
U64Less(x, y) ==
  \E i \in 1..4 : x[i] < y[i] /\ \A j \in (i + 1)..4 : x[j] = y[j]

InitCounters ==
  /\ \E n \in CounterValues, m \in CounterValues :
       /\ ~U64Less(n, m)
       /\ config = ProtocolConfig("alice", 100, 50, 5000, FALSE, 0,
                                  "treasury1", n, 0)
       /\ user_stats =
            [u \in Users |->
               IF u = "alice" /\ m # u64(0)
                 THEN [NoUserStats EXCEPT !.exists = TRUE, !.user = u,
                                          !.total_swaps = m]
                 ELSE NoUserStats]
  /\ clock = 0
  /\ token = InitToken
  /\ receipts = <<>>
  /\ payments = <<>>
  /\ call = Idle
  /\ pin = NoPure
  /\ pout = None

CounterRequests ==
  AdminOnlyRequests
    \cup {SwapArgs(u, 10, 5, 50, pm, pl) :
            u \in {"alice"}, pm \in BOOLEAN,
            pl \in {NoPayload, RoutePayload(MatchingRoute("SOL", "USDC", 10)),
                    RoutePayload([MatchingRoute("SOL", "USDC", 10)
                                    EXCEPT !.slippage_bps = 101])}}
    \cup PlainRequests("bob")

SubmitCounters ==
  Submit(IF LedgerSize < MaxRecords THEN CounterRequests ELSE AdminOnlyRequests)

NextCounters ==
  \/ SubmitCounters
  \/ Initialize
  \/ UpdateConfig
  \/ ToggleProtectedMode
  \/ ExecuteSwap
  \/ PayAnyToken
  \/ Complete
  \/ Tick

SpecCounters == InitCounters /\ [][NextCounters]_vars

\* x + 1 capped at 2^64-1: the lowest limb that is not full is incremented
\* and the full limbs below it become zero
PlusOneCapped(x) ==
  IF x = U64_MAX THEN U64_MAX
  ELSE LET k == CHOOSE i \in 1..4 :
                  x[i] # U16_MODULUS - 1
                    /\ \A j \in 1..(i - 1) : x[j] = U16_MODULUS - 1
       IN  [i \in 1..4 |-> IF i < k THEN 0 ELSE IF i = k THEN x[i] + 1 ELSE x[i]]

C20_SwapCountersSaturate ==
  [][/\ (IsPending("execute_swap") /\ call'.err = "Ok") =>
          /\ user_stats'[call.a.user].total_swaps
               = PlusOneCapped(user_stats[call.a.user].total_swaps)
          /\ config'.total_swaps = PlusOneCapped(config.total_swaps)
     /\ (IsPending("execute_swap") /\ call'.err # "Ok") =>
          /\ config'.total_swaps = config.total_swaps
          /\ \A u \in Users :
               user_stats'[u].total_swaps = user_stats[u].total_swaps
     /\ ~U64Less(config'.total_swaps, config.total_swaps)
     /\ \A u \in Users :
          ~U64Less(user_stats'[u].total_swaps, user_stats[u].total_swaps)
    ]_vars

\* a second successful swap in a protocol whose counter is at the maximum
C20_Witness ==
  /\ IsDone("execute_swap")
  /\ call.err = "Ok"
  /\ Cardinality(DOMAIN receipts) = 2
  /\ config.total_swaps = U64_MAX
  /\ user_stats[call.a.user].total_swaps # U64_MAX

(***************************************************************************)
(* C21.  pay_any_token never rejects a payment because of its memo: the    *)
(* outcome is that of the same call without a memo; the stored memo_len    *)
(* equals min(byte length of the memo, 64), the first memo_len stored      *)
(* bytes equal the first memo_len bytes of the supplied memo, the          *)
(* remaining bytes are zero, and an absent memo is stored with             *)
(* memo_len = 0.                                                           *)
(***************************************************************************)
C21_MemoTruncatedNeverRejected ==
  [][IsPending("pay_any_token") =>
       LET memo == call.a.memo
           n == IF memo = None THEN 0
                ELSE IF Len(memo[1]) <= MAX_MEMO_LENGTH THEN Len(memo[1])
                ELSE MAX_MEMO_LENGTH
           memoless == pay_any_token_handler(config, token, payments,
                         user_stats, clock, [call.a EXCEPT !.memo = None],
                         call.a.payload, call'.agg)
       IN  /\ call'.err = memoless.err
           /\ call'.err = "Ok" =>
                /\ payments'[RecordKey].memo_len = n
                /\ \A i \in 1..MAX_MEMO_LENGTH :
                     payments'[RecordKey].memo[i]
                       = IF i <= n THEN memo[1][i] ELSE 0]_vars

\* a memo one byte longer than the maximum, stored cut to the maximum
C21_Witness ==
  /\ IsDone("pay_any_token")
  /\ call.err = "Ok"
  /\ IsSome(call.a.memo)
  /\ Len(Unwrap(call.a.memo)) = MAX_MEMO_LENGTH + 1
  /\ payments[RecordKey].memo_len = MAX_MEMO_LENGTH
  /\ payments[RecordKey].memo[MAX_MEMO_LENGTH]
       = Unwrap(call.a.memo)[MAX_MEMO_LENGTH]

(***************************************************************************)
(* C22.  Once a SwapReceipt or PaymentRecord has been created, no later    *)
(* operation (swap, payment, admin call, or failed call) changes any of    *)
(* its fields or removes it; the sets of receipts and records only grow.   *)
(***************************************************************************)
C22_LedgerAppendOnly ==
  [][/\ \A k \in DOMAIN receipts :
          k \in DOMAIN receipts' /\ receipts'[k] = receipts[k]
     /\ \A k \in DOMAIN payments :
          k \in DOMAIN payments' /\ payments'[k] = payments[k]]_vars

\* a second swap by the same user one second after the first
C22_Witness ==
  /\ IsDone("execute_swap")
  /\ call.err = "Ok"
  /\ clock > 0
  /\ <<call.a.user, clock - 1>> \in DOMAIN receipts
  /\ ReceiptKey \in DOMAIN receipts

(***************************************************************************)
(* C23.  Every successful execute_swap creates exactly one new SwapReceipt *)
(* and every successful pay_any_token exactly one new PaymentRecord, each  *)
(* at an address not previously occupied; a call whose derived address     *)
(* ({user, timestamp}, {payer, merchant, timestamp}) is already occupied   *)
(* fails instead of overwriting the existing entry.                        *)
(***************************************************************************)
C23_OneNewEntryPerSuccess ==
  [][/\ (IsPending("execute_swap") /\ call'.err = "Ok") =>
          /\ ReceiptKey \notin DOMAIN receipts
          /\ DOMAIN receipts' = DOMAIN receipts \cup {ReceiptKey}
          /\ payments' = payments
     /\ (IsPending("execute_swap") /\ ReceiptKey \in DOMAIN receipts) =>
          /\ call'.err # "Ok"
          /\ receipts' = receipts
     /\ (IsPending("pay_any_token") /\ call'.err = "Ok") =>
          /\ RecordKey \notin DOMAIN payments
          /\ DOMAIN payments' = DOMAIN payments \cup {RecordKey}
          /\ receipts' = receipts
     /\ (IsPending("pay_any_token") /\ RecordKey \in DOMAIN payments) =>
          /\ call'.err # "Ok"
          /\ payments' = payments]_vars

\* a second payment by the same payer to the same merchant within a second
C23_Witness ==
  /\ IsDone("pay_any_token")
  /\ RecordKey \in DOMAIN payments
  /\ call.err = "AccountAlreadyInUse"

(***************************************************************************)
(* C24.  update_config, toggle_protected_mode and withdraw_fees succeed    *)
(* only when the caller equals the stored authority; for any other caller  *)
(* they fail with Unauthorized and change neither the configuration nor    *)
(* any balance.                                                            *)
(***************************************************************************)
IsPendingAdmin ==
  \/ IsPending("update_config")
  \/ IsPending("toggle_protected_mode")
  \/ IsPending("withdraw_fees")

C24_AuthorityOnly ==
  [][(IsPendingAdmin /\ config.exists) =>
       /\ call'.err = "Ok" => call.a.caller = config.authority
       /\ call.a.caller # config.authority =>
            /\ call'.err = "Unauthorized"
            /\ config' = config
            /\ token' = token]_vars

\* a withdrawal with the right accounts and a funded vault, by a stranger
C24_Witness ==
  /\ IsDone("withdraw_fees")
  /\ config.exists
  /\ call.a.caller # config.authority
  /\ call.a.fee_vault = FeeVaultAddress(call.a.usdc_mint)
  /\ call.a.treasury_account = <<config.treasury, call.a.usdc_mint>>
  /\ token[call.a.fee_vault] > 0
  /\ call.err = "Unauthorized"

(***************************************************************************)
(* C25.  After initialization ProtocolConfig is mutated only by calls made *)
(* by the stored authority: a call made by any other party, including      *)
(* execute_swap and pay_any_token, leaves every field of ProtocolConfig    *)
(* unchanged, and the config is never deleted.                             *)
(***************************************************************************)
Caller ==
  IF call.op = "execute_swap" THEN call.a.user
  ELSE IF call.op = "pay_any_token" THEN call.a.payer
  ELSE call.a.caller

C25_ConfigMutatedOnlyByAuthority ==
  [][config.exists =>
       /\ config'.exists
       /\ (call.status = "pending" /\ Caller # config.authority)
            => config' = config]_vars

(***************************************************************************)
(* C26.  initialize succeeds at most once; it fails with                   *)
(* InvalidConfiguration when default_slippage_bps > 5000,                  *)
(* max_price_impact_bps > 5000 or protected_slippage_bps >                 *)
(* default_slippage_bps, and on success stores the caller as authority and *)
(* the given parameters and treasury with protocol_fee_bps = 0,            *)
(* total_swaps = 0, total_volume_usd = 0 and protected_mode_enabled =      *)
(* false; a second initialize fails and leaves the existing configuration  *)
(* unchanged.                                                              *)
(***************************************************************************)
C26_InitializeOnce ==
  [][IsPending("initialize") =>
       LET a == call.a
           invalid == \/ a.default_slippage_bps > 5000
                      \/ a.max_price_impact_bps > 5000
                      \/ a.protected_slippage_bps > a.default_slippage_bps
       IN  /\ config.exists => call'.err # "Ok" /\ config' = config
           /\ (~config.exists /\ invalid) =>
                call'.err = "InvalidConfiguration" /\ config' = config
           /\ (~config.exists /\ ~invalid) =>
                /\ call'.err = "Ok"
                /\ config'.exists
                /\ config'.authority = a.caller
                /\ config'.default_slippage_bps = a.default_slippage_bps
                /\ config'.protected_slippage_bps = a.protected_slippage_bps
                /\ config'.max_price_impact_bps = a.max_price_impact_bps
                /\ config'.treasury = a.treasury
                /\ config'.protocol_fee_bps = 0
                /\ config'.total_swaps = <<0, 0, 0, 0>>
                /\ config'.total_volume_usd = 0
                /\ config'.protected_mode_enabled = FALSE]_vars

\* a second initialize, by another caller, after the configuration changed
C26_Witness ==
  /\ IsDone("initialize")
  /\ config.exists
  /\ call.a.caller # config.authority
  /\ config.treasury # call.a.treasury
  /\ call.err # "Ok"

(***************************************************************************)
(* C27.  In every state reachable through initialize, update_config and    *)
(* toggle_protected_mode, default_slippage_bps <= 5000,                    *)
(* protected_slippage_bps <= 5000, max_price_impact_bps <= 5000 and        *)
(* protocol_fee_bps <= 10000; an update_config supplying a value above its *)
(* bound fails with InvalidConfiguration.                                  *)
(***************************************************************************)
Above(o, bound) == IsSome(o) /\ Unwrap(o) > bound

C27_BasisPointBounds ==
  /\ config.exists =>
       /\ config.default_slippage_bps <= 5000
       /\ config.protected_slippage_bps <= 5000
       /\ config.max_price_impact_bps <= 5000
       /\ config.protocol_fee_bps <= 10000
  /\ (IsDone("update_config") /\ config.exists
        /\ call.a.caller = config.authority
        /\ (\/ Above(call.a.new_default_slippage_bps, 5000)
            \/ Above(call.a.new_protected_slippage_bps, 5000)
            \/ Above(call.a.new_max_price_impact_bps, 5000)
            \/ Above(call.a.new_protocol_fee_bps, 10000)))
       => call.err = "InvalidConfiguration"

\* an update whose only fault is a protocol fee of 10001, rejected
C27_Witness ==
  /\ IsDone("update_config")
  /\ config.exists
  /\ call.a.caller = config.authority
  /\ Above(call.a.new_protocol_fee_bps, 10000)
  /\ ~Above(call.a.new_default_slippage_bps, 5000)
  /\ ~Above(call.a.new_protected_slippage_bps, 5000)
  /\ ~Above(call.a.new_max_price_impact_bps, 5000)
  /\ call.err = "InvalidConfiguration"
  /\ config.protocol_fee_bps <= 10000

(***************************************************************************)
(* C28.  Arithmetic overflow is a hard failure, never silent wraparound:   *)
(* each computation in a call either yields the mathematically exact value *)
(* or aborts the call.  Checked for the two narrowing casts: the price     *)
(* impact returned by calculate_price_impact is the exact quotient of the  *)
(* fee sum times 10000 by in_amount, and the slippage returned by          *)
(* calculate_actual_slippage is the exact signed quotient.                 *)
(***************************************************************************)
\* r is (actual - expected) * 10000 / expected truncated toward zero; for
\* actual >= expected the quotient is q * 10000 + t with q the whole
\* multiples of expected in the difference and t the part of the remainder
IsExactSlippage(expected_out, actual_out, r) ==
  IF expected_out = 0 THEN r = 0
  ELSE IF actual_out >= expected_out
    THEN LET diff == actual_out - expected_out
         IN  /\ r >= 0
             /\ r \div 10000 = diff \div expected_out
             /\ r % 10000 = ((diff % expected_out) * 10000) \div expected_out
  ELSE r = -(((expected_out - actual_out) * 10000) \div expected_out)

C28_ExactOrAbort ==
  /\ Applied("calculate_price_impact")
       => Unwrap(pout) = ExactPriceImpact(pin.route)
  /\ Applied("calculate_actual_slippage")
       => IsExactSlippage(pin.expected_out, pin.actual_out, Unwrap(pout))

(***************************************************************************)
(* C29.  calculate_actual_slippage(expected_out, actual_out) equals the    *)
(* signed integer quotient (actual_out - expected_out) x 10000 /           *)
(* expected_out truncated toward zero for every expected_out > 0, so       *)
(* (1000,1000) gives 0, (1000,1010) gives +100 and (1000,990) gives -100,  *)
(* and equals 0 when expected_out = 0; its sign is positive, zero or       *)
(* negative exactly as actual_out is above, at or below expected_out       *)
(* whenever the quotient is non-zero.                                      *)
(***************************************************************************)
C29_SlippageIsSignedQuotient ==
  Applied("calculate_actual_slippage") =>
    LET r == Unwrap(pout)
    IN  /\ IsExactSlippage(pin.expected_out, pin.actual_out, r)
        /\ (r > 0 => pin.actual_out > pin.expected_out)
        /\ (r < 0 => pin.actual_out < pin.expected_out)
        /\ (pin.expected_out = 1000 /\ pin.actual_out = 1010) => r = 100
        /\ (pin.expected_out = 1000 /\ pin.actual_out = 990) => r = -100

(***************************************************************************)
(* C30.  A successful withdraw_fees moves the entire balance of the fee    *)
(* vault to the treasury account: afterwards the vault holds 0 and the     *)
(* treasury account has grown by exactly the vault's prior balance, no     *)
(* other balance changes; with an empty vault the call succeeds and        *)
(* transfers nothing; the configuration is unchanged in every case; and    *)
(* the call fails when the vault's mint or owner, or the treasury          *)
(* account's mint or owner, is not the mint named in the call, the config  *)
(* address and the configured treasury.                                    *)
(***************************************************************************)
C30_WithdrawMovesEntireBalance ==
  [][(IsPending("withdraw_fees") /\ config.exists) =>
       LET a == call.a
           fv == a.fee_vault
           ta == a.treasury_account
       IN  /\ config' = config
           /\ call'.err = "Ok" =>
                /\ token'[fv] = 0
                /\ token'[ta] = token[ta] + token[fv]
                /\ \A acc \in DOMAIN token \ {fv, ta} : token'[acc] = token[acc]
                /\ token[fv] = 0 => token' = token
           /\ ( /\ a.caller = config.authority
                /\ fv = FeeVaultAddress(a.usdc_mint)
                /\ ta = <<config.treasury, a.usdc_mint>> ) => call'.err = "Ok"
           /\ ( \/ fv[2] # a.usdc_mint
                \/ fv[1] # ConfigPda
                \/ ta[2] # a.usdc_mint
                \/ ta[1] # config.treasury ) => call'.err # "Ok"]_vars

\* the authority has drained a funded vault into the treasury account
C30_Witness ==
  /\ IsDone("withdraw_fees")
  /\ call.err = "Ok"
  /\ call.a.caller = config.authority
  /\ token[call.a.fee_vault] = 0
  /\ token[call.a.treasury_account] = VaultFunds

(***************************************************************************)
(* C31.  When one update_config call supplies both                         *)
(* new_default_slippage_bps and new_protected_slippage_bps, the new        *)
(* protected value is checked against the new default, not the stored one: *)
(* made by the authority with its other supplied fields within bounds, the *)
(* call succeeds iff both values are <= 5000 and new protected <= new      *)
(* default.                                                                *)
(***************************************************************************)
WithinBound(o, bound) == IsSome(o) => Unwrap(o) <= bound

C31_ProtectedCheckedAgainstNewDefault ==
  [][( /\ IsPending("update_config")
       /\ config.exists
       /\ call.a.caller = config.authority
       /\ IsSome(call.a.new_default_slippage_bps)
       /\ IsSome(call.a.new_protected_slippage_bps)
       /\ WithinBound(call.a.new_max_price_impact_bps, 5000)
       /\ WithinBound(call.a.new_protocol_fee_bps, 10000) ) =>
       (call'.err = "Ok" <=>
          /\ Unwrap(call.a.new_default_slippage_bps) <= 5000
          /\ Unwrap(call.a.new_protected_slippage_bps) <= 5000
          /\ Unwrap(call.a.new_protected_slippage_bps)
               <= Unwrap(call.a.new_default_slippage_bps))]_vars

\* both supplied and stored, the new protected value above the smallest
\* default a configuration can have been given before
C31_Witness ==
  /\ IsDone("update_config")
  /\ call.err = "Ok"
  /\ IsSome(call.a.new_default_slippage_bps)
  /\ IsSome(call.a.new_protected_slippage_bps)
  /\ config.default_slippage_bps = Unwrap(call.a.new_default_slippage_bps)
  /\ config.protected_slippage_bps = Unwrap(call.a.new_protected_slippage_bps)
  /\ config.protected_slippage_bps = 5000

(***************************************************************************)
(* C32.  A successful update_config changes only the fields that were      *)
(* supplied (authority, protected_mode_enabled, total_swaps and            *)
(* total_volume_usd never change), toggle_protected_mode changes only      *)
(* protected_mode_enabled, and an update_config that fails on any supplied *)
(* field leaves every field at its pre-call value, even when a field       *)
(* processed earlier in the same call was valid.                           *)
(***************************************************************************)
\* the value a field has after a successful update: the supplied one, or
\* the old one when none was supplied
Updated(o, old) == IF IsSome(o) THEN Unwrap(o) ELSE old

C32_UpdateFrame ==
  [][/\ (IsPending("update_config") /\ call'.err = "Ok") =>
          config' = [config EXCEPT
            !.default_slippage_bps =
               Updated(call.a.new_default_slippage_bps, @),
            !.protected_slippage_bps =
               Updated(call.a.new_protected_slippage_bps, @),
            !.max_price_impact_bps =
               Updated(call.a.new_max_price_impact_bps, @),
            !.protocol_fee_bps = Updated(call.a.new_protocol_fee_bps, @),
            !.treasury = Updated(call.a.new_treasury, @)]
     /\ (IsPending("update_config") /\ call'.err # "Ok") => config' = config
     /\ IsPending("toggle_protected_mode") =>
          \E b \in BOOLEAN :
            config' = [config EXCEPT !.protected_mode_enabled = b]]_vars

\* a failed update whose default, processed first, was valid and new
C32_Witness ==
  /\ IsDone("update_config")
  /\ call.err = "InvalidConfiguration"
  /\ IsSome(call.a.new_default_slippage_bps)
  /\ Unwrap(call.a.new_default_slippage_bps) <= 5000
  /\ Unwrap(call.a.new_default_slippage_bps) # config.default_slippage_bps

(***************************************************************************)
(* C33.  When neither the per-call protected_mode flag nor the global      *)
(* protected_mode_enabled flag is set, execute_swap never fails with       *)
(* PriceImpactTooHigh, whatever the route's fee amounts: the price-impact  *)
(* ceiling is evaluated only under protected policy.                       *)
(***************************************************************************)
C33_ImpactCeilingOnlyWhenProtected ==
  [][( /\ IsPending("execute_swap")
       /\ ~call.a.protected_mode
       /\ ~config.protected_mode_enabled ) =>
       call'.err # "FlowMintError::PriceImpactTooHigh"]_vars

\* an unprotected swap whose route's price impact is above the ceiling has
\* gone on to the aggregator
C33_Witness ==
  /\ IsDone("execute_swap")
  /\ config.exists
  /\ ~call.a.protected_mode
  /\ ~config.protected_mode_enabled
  /\ call.a.payload.decodes
  /\ calculate_price_impact(call.a.payload.route) > config.max_price_impact_bps
  /\ call.cpi
  /\ call.err = "Ok"

(***************************************************************************)
(* C34.  execute_swap reports the error of the first failing check in the  *)
(* order: SlippageExceeded (policy ceiling), InsufficientBalance (input    *)
(* balance < amount_in), AmountTooSmall (amount_in = 0 or                  *)
(* minimum_amount_out = 0), InvalidInstructionData (no route payload),     *)
(* route decode failure, the route validate errors, QuoteExpired,          *)
(* PriceImpactTooHigh (protected policy only); pay_any_token checks        *)
(* AmountTooSmall (amount_in = 0 or exact_usdc_out = 0) before             *)
(* InsufficientBalance, and both before branching on direct versus         *)
(* conversion.  Stated for calls that pass the accounts stage.             *)
(***************************************************************************)
\* the failing checks of the pending swap, in the claim's order, as pairs
\* <<fails, error>>
SwapChecksInOrder ==
  LET a == call.a
      v == validate(Route, a.input_mint, a.output_mint, a.amount_in,
                    a.minimum_amount_out, a.slippage_bps)
  IN  << <<a.slippage_bps > SlippageCeiling, "FlowMintError::SlippageExceeded">>,
         <<token[<<a.user, a.input_mint>>] < a.amount_in,
           "FlowMintError::InsufficientBalance">>,
         <<a.amount_in = 0 \/ a.minimum_amount_out = 0,
           "FlowMintError::AmountTooSmall">>,
         <<~a.payload.present, "FlowMintError::InvalidInstructionData">>,
         <<~a.payload.decodes, "JupiterError::DeserializationFailed">>,
         <<a.payload.decodes /\ v # "Ok", v>>,
         <<a.payload.decodes /\ PastDeadline(Route, clock),
           "FlowMintError::QuoteExpired">>,
         <<a.payload.decodes /\ EffectiveProtected
             /\ calculate_price_impact(Route) > config.max_price_impact_bps,
           "FlowMintError::PriceImpactTooHigh">> >>

PayChecksInOrder ==
  LET a == call.a
  IN  << <<a.amount_in = 0 \/ a.exact_usdc_out = 0,
           "FlowMintError::AmountTooSmall">>,
         <<token[<<a.payer, a.input_mint>>] < a.amount_in,
           "FlowMintError::InsufficientBalance">> >>

\* the checks of a list that fail
Failing(checks) == {i \in DOMAIN checks : checks[i][1]}

\* the error of the first failing check
FirstFailure(checks) ==
  checks[CHOOSE i \in Failing(checks) : \A j \in Failing(checks) : i <= j][2]

C34_FirstFailingCheck ==
  [][/\ ( /\ IsPending("execute_swap")
          /\ call'.err \notin AccountErrors
          /\ Failing(SwapChecksInOrder) # {} ) =>
          call'.err = FirstFailure(SwapChecksInOrder)
     /\ ( /\ IsPending("pay_any_token")
          /\ call'.err \notin AccountErrors
          /\ Failing(PayChecksInOrder) # {} ) =>
          call'.err = FirstFailure(PayChecksInOrder)]_vars

\* a swap above the slippage ceiling and above the balance: the ceiling is
\* the error reported
C34_Witness ==
  /\ IsDone("execute_swap")
  /\ config.exists
  /\ call.a.slippage_bps > SlippageCeiling
  /\ token[<<call.a.user, call.a.input_mint>>] < call.a.amount_in
  /\ call.err = "FlowMintError::SlippageExceeded"

(***************************************************************************)
(* C35.  A user's UserStats is created with all counters zero on that      *)
(* user's first successful swap or payment, with its user field set to     *)
(* that caller, and is thereafter modified only by that same user's        *)
(* successful calls: a call by user A never changes user B's stats, a swap *)
(* never changes total_payments, and a payment never changes total_swaps.  *)
(***************************************************************************)
\* the stats a user has after a first successful call: zero but for the
\* counter of that call
FirstStats(u, op, now) ==
  [exists |-> TRUE, user |-> u,
   total_swaps |-> IF op = "execute_swap" THEN u64(1) ELSE u64(0),
   total_volume_usd |-> 0,
   total_payments |-> IF op = "pay_any_token" THEN u64(1) ELSE u64(0),
   total_dca_orders |-> 0, total_stop_loss_orders |-> 0,
   last_activity |-> now]

IsPendingUserCall == IsPending("execute_swap") \/ IsPending("pay_any_token")

C35_UserStatsOwnedByUser ==
  [][/\ \A u \in Users :
          /\ user_stats'[u] # user_stats[u] =>
               IsPendingUserCall /\ Caller = u /\ call'.err = "Ok"
          /\ ~user_stats[u].exists => user_stats[u] = NoUserStats
          /\ user_stats[u].exists =>
               user_stats'[u].exists /\ user_stats'[u].user = u
     /\ (IsPendingUserCall /\ call'.err = "Ok") =>
          IF user_stats[Caller].exists
            THEN user_stats'[Caller].user = Caller
            ELSE user_stats'[Caller] = FirstStats(Caller, call.op, clock)
     /\ IsPending("execute_swap") =>
          user_stats'[Caller].total_payments = user_stats[Caller].total_payments
     /\ IsPending("pay_any_token") =>
          user_stats'[Caller].total_swaps = user_stats[Caller].total_swaps
    ]_vars

\* a user's first successful call, a payment, has created their stats
\* while the other user already has stats of their own
C35_Witness ==
  /\ IsDone("pay_any_token")
  /\ call.err = "Ok"
  /\ user_stats[call.a.payer]
       = FirstStats(call.a.payer, "pay_any_token", clock)
  /\ \E u \in Users \ {call.a.payer} : user_stats[u].total_swaps = u64(1)

(***************************************************************************)
(* C36.  Each successful pay_any_token (direct or conversion) increases    *)
(* the payer's UserStats.total_payments by exactly 1 (staying at 2^64-1    *)
(* once saturated) and leaves ProtocolConfig.total_swaps unchanged; across *)
(* any sequence of operations no UserStats counter and no protocol counter *)
(* ever decreases.  Checked on a protocol with a history: initialized, the *)
(* payer's payment counter at zero, at a limb boundary, one below the      *)
(* maximum, or at the maximum.                                             *)
(***************************************************************************)
InitPayCounters ==
  /\ \E n \in {u64(0), U64_MAX}, m \in CounterValues :
       /\ config = ProtocolConfig("alice", 100, 50, 5000, FALSE, 0,
                                  "treasury1", n, 0)
       /\ user_stats =
            [u \in Users |->
               IF u = "alice" /\ m # u64(0)
                 THEN [NoUserStats EXCEPT !.exists = TRUE, !.user = u,
                                          !.total_payments = m]
                 ELSE NoUserStats]
  /\ clock = 0
  /\ token = InitToken
  /\ receipts = <<>>
  /\ payments = <<>>
  /\ call = Idle
  /\ pin = NoPure
  /\ pout = None

PayCounterRequests ==
  AdminOnlyRequests
    \cup {PayArgs("alice", "SOL", 10, 5, None, pl) :
            pl \in {NoPayload, RoutePayload(MatchingRoute("SOL", "USDC", 10))}}
    \cup {PayArgs("alice", "USDC", 5, eo, None, NoPayload) : eo \in {0, 5}}
    \cup PlainRequests("bob")

SubmitPayCounters ==
  Submit(IF LedgerSize < MaxRecords THEN PayCounterRequests
                                    ELSE AdminOnlyRequests)

NextPayCounters ==
  \/ SubmitPayCounters
  \/ Initialize
  \/ UpdateConfig
  \/ ToggleProtectedMode
  \/ ExecuteSwap
  \/ PayAnyToken
  \/ Complete
  \/ Tick

SpecPayCounters == InitPayCounters /\ [][NextPayCounters]_vars

C36_PaymentCountersSaturate ==
  [][/\ (IsPending("pay_any_token") /\ call'.err = "Ok") =>
          /\ user_stats'[call.a.payer].total_payments
               = PlusOneCapped(user_stats[call.a.payer].total_payments)
          /\ config'.total_swaps = config.total_swaps
     /\ ~U64Less(config'.total_swaps, config.total_swaps)
     /\ config'.total_volume_usd >= config.total_volume_usd
     /\ \A u \in Users :
          /\ ~U64Less(user_stats'[u].total_swaps, user_stats[u].total_swaps)
          /\ ~U64Less(user_stats'[u].total_payments,
                      user_stats[u].total_payments)
          /\ user_stats'[u].total_volume_usd >= user_stats[u].total_volume_usd
          /\ user_stats'[u].total_dca_orders >= user_stats[u].total_dca_orders
          /\ user_stats'[u].total_stop_loss_orders
               >= user_stats[u].total_stop_loss_orders
    ]_vars

\* the payer's second successful payment, the counter at its maximum
C36_Witness ==
  /\ IsDone("pay_any_token")
  /\ call.err = "Ok"
  /\ Cardinality({k \in DOMAIN payments : k[1] = call.a.payer}) = 2
  /\ user_stats[call.a.payer].total_payments = U64_MAX

(***************************************************************************)
(* C37.  In every reachable state below counter saturation,                *)
(* ProtocolConfig.total_swaps equals the number of SwapReceipts that exist *)
(* and equals the sum of all users' UserStats.total_swaps; each user's     *)
(* total_swaps equals the number of receipts with that user, and each      *)
(* user's total_payments equals the number of PaymentRecords with that     *)
(* payer.                                                                  *)
(***************************************************************************)
ReceiptsOf(u) == {k \in DOMAIN receipts : receipts[k].user = u}

PaymentsOf(u) == {k \in DOMAIN payments : payments[k].payer = u}

\* the value of a counter that fits its lowest limb
Small(x) == x[1]

IsSmall(x) == x = u64(x[1])

RECURSIVE SumOfSwaps(_)
SumOfSwaps(Us) ==
  IF Us = {} THEN 0
  ELSE LET u == CHOOSE v \in Us : TRUE
       IN  Small(user_stats[u].total_swaps) + SumOfSwaps(Us \ {u})

C37_CountersMatchLedger ==
  /\ IsSmall(config.total_swaps)
  /\ Small(config.total_swaps) = Cardinality(DOMAIN receipts)
  /\ Small(config.total_swaps) = SumOfSwaps(Users)
  /\ \A u \in Users :
       /\ IsSmall(user_stats[u].total_swaps)
       /\ IsSmall(user_stats[u].total_payments)
       /\ Small(user_stats[u].total_swaps) = Cardinality(ReceiptsOf(u))
       /\ Small(user_stats[u].total_payments) = Cardinality(PaymentsOf(u))

\* two users have one swap each
C37_Witness ==
  /\ IsDone("execute_swap")
  /\ call.err = "Ok"
  /\ Cardinality(DOMAIN receipts) = 2
  /\ \A u \in Users : Cardinality(ReceiptsOf(u)) = 1

====
